---- MODULE Spec2Model ----
(***************************************************************************)
(* Model of the ChannelAdmin economy and moderation core:                  *)
(* ChannelEconomyService (services.py) over InMemoryStorage (storage.py)   *)
(* and the domain model (models.py), together with the bot handler that    *)
(* confirms payments across an await: handle_invoice_check (bot.py), and   *)
(* JsonStorage with the JSON representation it persists (storage.py).      *)
(*                                                                         *)
(* Every service method is synchronous (no await), so under the asyncio    *)
(* event loop one method call is one atomic step.  A handler is a          *)
(* coroutine: it is split at its await of the payment gateway.             *)
(***************************************************************************)
EXTENDS Integers, Sequences, FiniteSets, TLC

VARIABLES
    users,              \* InMemoryStorage._users: user_id -> User, or NoUser
    posts,              \* InMemoryStorage._posts: post_id -> Post (a sequence, ids 1..n)
    post_sequence,      \* InMemoryStorage._post_sequence
    invoices,           \* InMemoryStorage._invoices: invoice_id -> Invoice
    settings,           \* InMemoryStorage._settings (BotSettings)
    post_energy_cost,   \* ChannelEconomyService.post_energy_cost
    pricing,            \* ChannelEconomyService.pricing (energy_price_per_unit)
    now,                \* the clock read by utcnow(), in hours
    checks,             \* per running handle_invoice_check: its position and locals
    remote,             \* the payment gateway's status of each invoice
    callers,            \* per caller of reserve_next_post: what it was handed
    fulfilled,          \* history: how often each invoice's fulfilment was applied
    tickets,            \* InMemoryStorage._tickets: ticket_id -> Ticket
    ticket_sequence,    \* InMemoryStorage._ticket_sequence
    ticket_message_sequence,  \* InMemoryStorage._ticket_message_sequence
    disk,               \* the file at JsonStorage._path: NoFile or its JSON payload
    handle,             \* the entity a caller of the storage holds a reference to
    job,                \* autopost_job: its position and the post it reserved
    inflight,           \* per running handler: the service call it is inside of
    serial,             \* history: the users had every service call run alone
    filter_text,        \* the text handed to WordFilter.is_allowed
    filter_result,      \* what is_allowed returned for it, "none" before the call
    registered,         \* history: the users whose register_user call returned
    charged,            \* history: post_id -> the energy submit_post took for it
    refunded,           \* history: post_id -> the energy of each refund, in order
    boot                \* JsonStorage(path): "opened", or "raised" by its constructor

vars == <<users, posts, post_sequence, invoices, settings, post_energy_cost,
          pricing, now, checks, remote, callers, fulfilled, tickets,
          ticket_sequence, ticket_message_sequence, disk, handle,
          job, inflight, serial, filter_text, filter_result,
          registered, charged, refunded, boot>>

-----------------------------------------------------------------------------
(* Program constants *)

DEFAULT_REGISTRATION_ENERGY == 100
DEFAULT_REFERRAL_ENERGY == 50
DefaultPostEnergyCost == 20
DefaultEnergyPricePerUnit == 1

\* PricingConfig: golden_card_hourly_price = 1.5, rubles_per_usd = 66.4, kept as
\* exact fractions (tenths) so that the division and ceiling are computed exactly.
GoldenCardHourlyPriceTenths == 15
RublesPerUsdTenths == 664

(* Bounds of the model *)
MaxEnergy == 100
MaxPosts == 1
MaxCards == 1
MaxTime == 1
MaxChecks == 2
MaxCallers == 2
MaxCalls == 2
MaxQueue == 2
MaxHeld == 2
MaxStored == 2
MaxTickets == 1
MaxMessages == 2
MaxText == 5

UserIds == {1, 2}
PostIds == 1..MaxPosts
InvoiceIds == {1, 2}
CheckIds == 1..MaxChecks
CallerIds == 1..MaxCallers

NoUser == [absent |-> TRUE]
NoFile == [absent |-> TRUE]
NoHandle == [kind |-> "none"]
NoTime == -1
None == "None"

\* (username, full_name) pairs a caller may pass; None means "not given".
Profiles == { [username |-> None, full_name |-> None],
              [username |-> "alice", full_name |-> "Alice A"] }

\* Inputs of the operations that take an amount, a price or a duration.
Amounts == {-50, 0, 50}
Costs == {0, 50}
Prices == {0, 1, 2}
Durations == {0, 1}

-----------------------------------------------------------------------------
(* filtering.py: WordFilter.  A text is a sequence of one-character strings. *)

Whitespace == {" ", "\n", "\t", "\r"}
StripChars == {".", ",", "!", "?", "\"", "'", "\n", "\r", "\t", " "}

LowerChar(c) ==
    CASE c = "B" -> "b" [] c = "A" -> "a" [] c = "D" -> "d"
      [] c = "H" -> "h" [] c = "I" -> "i" [] OTHER -> c

Lower(w) == [i \in 1..Len(w) |-> LowerChar(w[i])]

RECURSIVE SplitFrom(_, _, _)
\* str.split(): the maximal runs of non-whitespace characters, in order.
SplitFrom(text, i, cur) ==
    IF i > Len(text)
    THEN IF cur = <<>> THEN <<>> ELSE <<cur>>
    ELSE IF text[i] \in Whitespace
         THEN IF cur = <<>> THEN SplitFrom(text, i + 1, <<>>)
              ELSE <<cur>> \o SplitFrom(text, i + 1, <<>>)
         ELSE SplitFrom(text, i + 1, Append(cur, text[i]))

Split(text) == SplitFrom(text, 1, <<>>)

RECURSIVE StripLeft(_)
StripLeft(w) ==
    IF w # <<>> /\ w[1] \in StripChars THEN StripLeft(Tail(w)) ELSE w

RECURSIVE StripRight(_)
StripRight(w) ==
    IF w # <<>> /\ w[Len(w)] \in StripChars
    THEN StripRight(SubSeq(w, 1, Len(w) - 1)) ELSE w

Strip(w) == StripRight(StripLeft(w))

\* FilterConfig.banned_words as given to the service, lowercased by
\* from_iterable.  One Latin word stands for the configured Cyrillic ones: the
\* filter treats every word alike.
BannedWords == { <<"b", "a", "d">> }

\* is_allowed looking for the banned words anywhere in the lowercased text.
IsAllowedSubstring(text) ==
    ~ \E word \in BannedWords, i \in 1..Len(text) :
        /\ i + Len(word) - 1 <= Len(text)
        /\ Lower(SubSeq(text, i, i + Len(word) - 1)) = word

IsAllowed(text) ==
    LET tokens == Split(text)
        words == { Lower(Strip(tokens[i])) : i \in 1..Len(tokens) }
    IN  ~ \E word \in BannedWords : word \in words

\* The texts the filter is tried on: every text of at most MaxText of these
\* characters.
FilterAlphabet == {"b", "a", "d", "B", " ", "!"}
FilterTexts == UNION { [1..n -> FilterAlphabet] : n \in 0..MaxText }

TextHello == <<"h", "i">>
TextBanned == <<"h", "i", " ", "B", "a", "d", "!">>
Texts == {TextHello, TextBanned}

-----------------------------------------------------------------------------
(* models.py *)

NewUser(profile) ==
    [energy |-> 0, golden_cards |-> <<>>, referred_users |-> {},
     is_banned |-> FALSE, is_admin |-> FALSE,
     username |-> profile.username, full_name |-> profile.full_name]

NoProfile == [username |-> None, full_name |-> None]

\* User.add_energy raises on a negative amount.
AddEnergyRaises(user, amount) == amount < 0
AddEnergy(user, amount) == [user EXCEPT !.energy = @ + amount]

\* spend_energy without its balance test (models.py line 33 removed).
SpendEnergyRaisesNoBalanceTest(user, amount) == amount <= 0

\* User.spend_energy raises on a non-positive amount or on too little energy.
SpendEnergyRaises(user, amount) == amount <= 0 \/ user.energy < amount
\* spend_energy clamping the balance instead of subtracting (line 35).
SpendEnergyClamped(user, amount) == [user EXCEPT !.energy = 0]

SpendEnergy(user, amount) == [user EXCEPT !.energy = @ - amount]

ExpiresAt(card) == card.purchased_at + card.duration

NewGoldenCard(duration) == [duration |-> duration, purchased_at |-> now]

AddGoldenCard(user, card) == [user EXCEPT !.golden_cards = Append(@, card)]

\* pop_active_golden_card without its expiry test (line 43): the first card.
ActiveCardIndexNoExpiryTest(user) == IF user.golden_cards = <<>> THEN 0 ELSE 1

\* Index of the first card, in list order, with expires_at > now; 0 when none.
ActiveCardIndex(user) ==
    LET active == { i \in 1..Len(user.golden_cards) :
                      ExpiresAt(user.golden_cards[i]) > now }
    IN  IF active = {} THEN 0
        ELSE CHOOSE i \in active : \A j \in active : i <= j

RemoveAt(s, i) == SubSeq(s, 1, i - 1) \o SubSeq(s, i + 1, Len(s))

\* User.pop_active_golden_card: the user afterwards.
PopActiveGoldenCard(user) ==
    IF ActiveCardIndex(user) = 0 THEN user
    ELSE [user EXCEPT !.golden_cards = RemoveAt(@, ActiveCardIndex(user))]

NewPost(user_id, text, requires_pin) ==
    [user_id |-> user_id, text |-> text, requires_pin |-> requires_pin,
     created_at |-> now, status |-> "pending",
     channel_message_id |-> 0, chat_message_id |-> 0]

\* Invoice as the bot records it: exactly one of energy_amount / golden_hours
\* is set (0 stands for None); paid_at is NoTime until the invoice is marked paid.
NewInvoice(user_id, invoice_type, quantity) ==
    [user_id |-> user_id, invoice_type |-> invoice_type,
     energy_amount |-> IF invoice_type = "energy" THEN quantity ELSE 0,
     golden_hours |-> IF invoice_type = "golden" THEN quantity ELSE 0,
     status |-> "active", paid_at |-> NoTime]

-----------------------------------------------------------------------------
(* config.py: PricingConfig.  A price per unit is the fraction num / den. *)

\* convert_rub_to_usd(rub): 0 when rub <= 0, else rub / rubles_per_usd.
ConvertRubToUsd(rub) ==
    IF rub <= 0 THEN [num |-> 0, den |-> 1]
    ELSE [num |-> rub * 10, den |-> RublesPerUsdTenths]

CeilDiv(a, b) == (a + b - 1) \div b

Max(a, b) == IF a >= b THEN a ELSE b

\* energy_cost_for_golden_card for duration > 0 returns None when the unit
\* price is not positive ...
EnergyCostUnavailable == pricing.num <= 0

\* ... and else max(1, ceil(price_for_golden_card(duration) / unit_price)).
EnergyCostForGoldenCard(duration) ==
    Max(1, CeilDiv(GoldenCardHourlyPriceTenths * duration * pricing.den,
                   10 * pricing.num))

-----------------------------------------------------------------------------
(* storage.py: InMemoryStorage *)

UserExists(us, uid) == us[uid] # NoUser

\* ChannelEconomyService._get_or_create_user: the stored users afterwards.
GetOrCreateUser(us, uid, profile) ==
    IF ~UserExists(us, uid)
    THEN [us EXCEPT ![uid] = NewUser(profile)]
    ELSE LET u1 == IF profile.username # None /\ profile.username # us[uid].username
                   THEN [us[uid] EXCEPT !.username = profile.username]
                   ELSE us[uid]
             u2 == IF profile.full_name # None /\ profile.full_name # u1.full_name
                   THEN [u1 EXCEPT !.full_name = profile.full_name]
                   ELSE u1
         IN  [us EXCEPT ![uid] = u2]

\* list_posts_by_status / list_posts_for_user: ids of the matching posts in
\* the order of sorted(..., key=created_at), a stable sort over insertion order.
Before(ps, p, q) ==
    \/ ps[p].created_at < ps[q].created_at
    \/ ps[p].created_at = ps[q].created_at /\ p < q

RECURSIVE SortedIds(_, _)
SortedIds(ps, ids) ==
    IF ids = {} THEN <<>>
    ELSE LET first == CHOOSE p \in ids : \A q \in ids \ {p} : Before(ps, p, q)
         IN  <<first>> \o SortedIds(ps, ids \ {first})

ListPostsByStatus(ps, status) ==
    SortedIds(ps, { p \in DOMAIN ps : ps[p].status = status })

ListPostsForUser(ps, uid, statuses) ==
    SortedIds(ps, { p \in DOMAIN ps : ps[p].user_id = uid /\ ps[p].status \in statuses })

StorageVars == <<users, posts, post_sequence, invoices, settings>>
ServiceVars == <<post_energy_cost, pricing>>
BotVars == <<checks, remote, callers, fulfilled>>
SupportVars == <<tickets, ticket_sequence, ticket_message_sequence>>
OutsideVars == <<disk, handle>>
AuditVars == <<registered, charged, refunded>>
RunVars == <<job, inflight, serial, filter_text, filter_result, AuditVars, boot>>

EnergyWithin(us) ==
    \A u \in UserIds : UserExists(us, u) => us[u].energy <= MaxEnergy

CardsWithin(us) ==
    \A u \in UserIds : UserExists(us, u) => Len(us[u].golden_cards) <= MaxCards

\* The step of an operation that touches only the stored users: `us` is the
\* users it leaves.  The guards keep the reachable states finite.
UsersStep(us) ==
    /\ EnergyWithin(us) /\ CardsWithin(us)
    /\ users' = us
    /\ UNCHANGED <<RunVars, posts, post_sequence, invoices, settings, ServiceVars, now, BotVars,
                   SupportVars, OutsideVars>>

-----------------------------------------------------------------------------
(* services.py: ChannelEconomyService, user and energy operations.  For each *)
(* operation: whether the call raises, and the stored state it leaves (a     *)
(* call that raises leaves what it had saved before raising).                *)

\* register_user(user_id, subscribed_to_sponsors, username=, full_name=)
RegisterUserRaises(us, uid, subscribed, profile) == ~subscribed

\* register_user without its subscription test (lines 56-57).
RegisterUserUsersNoSubscriptionTest(us, uid, subscribed, profile) ==
    IF ~UserExists(us, uid)
    THEN [us EXCEPT ![uid] = AddEnergy(NewUser(profile), DEFAULT_REGISTRATION_ENERGY)]
    ELSE GetOrCreateUser(us, uid, profile)

RegisterUserUsers(us, uid, subscribed, profile) ==
    IF ~subscribed THEN us
    ELSE IF ~UserExists(us, uid)
    THEN [us EXCEPT ![uid] = AddEnergy(NewUser(profile), DEFAULT_REGISTRATION_ENERGY)]
    ELSE GetOrCreateUser(us, uid, profile)

RegisterUser(uid, subscribed, profile) ==
    UsersStep(RegisterUserUsers(users, uid, subscribed, profile))

\* purchase_energy(user_id, amount)
PurchaseEnergyRaises(us, uid, amount) ==
    LET user == GetOrCreateUser(us, uid, NoProfile)[uid]
    IN  user.is_banned \/ AddEnergyRaises(user, amount)

\* purchase_energy without its ban test (lines 112-113).
PurchaseEnergyUsersNoBanTest(us, uid, amount) ==
    LET us1 == GetOrCreateUser(us, uid, NoProfile)
    IN  IF AddEnergyRaises(us1[uid], amount) THEN us1
        ELSE [us1 EXCEPT ![uid] = AddEnergy(us1[uid], amount)]

PurchaseEnergyUsers(us, uid, amount) ==
    LET us1 == GetOrCreateUser(us, uid, NoProfile)
    IN  IF PurchaseEnergyRaises(us, uid, amount) THEN us1
        ELSE [us1 EXCEPT ![uid] = AddEnergy(us1[uid], amount)]

PurchaseEnergy(uid, amount) == UsersStep(PurchaseEnergyUsers(users, uid, amount))

\* credit_energy(user_id, amount)
CreditEnergyRaises(us, uid, amount) ==
    \/ amount <= 0
    \/ GetOrCreateUser(us, uid, NoProfile)[uid].is_banned

CreditEnergyUsers(us, uid, amount) ==
    IF amount <= 0 THEN us
    ELSE LET us1 == GetOrCreateUser(us, uid, NoProfile)
         IN  IF us1[uid].is_banned THEN us1
             ELSE [us1 EXCEPT ![uid] = AddEnergy(us1[uid], amount)]

CreditEnergy(uid, amount) == UsersStep(CreditEnergyUsers(users, uid, amount))

\* award_referral(referrer_id, referred_id)
AwardReferralRaises(us, referrer_id, referred_id) ==
    \/ GetOrCreateUser(us, referrer_id, NoProfile)[referrer_id].is_banned
    \/ referred_id = referrer_id

\* award_referral without its test for an already referred user (lines 135-136).
AwardReferralUsersNoReferredTest(us, referrer_id, referred_id) ==
    LET us1 == GetOrCreateUser(us, referrer_id, NoProfile)
        us2 == GetOrCreateUser(us1, referred_id, NoProfile)
    IN  IF AwardReferralRaises(us, referrer_id, referred_id) THEN us2
        ELSE [us2 EXCEPT
                ![referrer_id] =
                    AddEnergy([us1[referrer_id] EXCEPT
                                  !.referred_users = @ \cup {referred_id}],
                              DEFAULT_REFERRAL_ENERGY),
                ![referred_id] = us2[referred_id]]

AwardReferralUsers(us, referrer_id, referred_id) ==
    LET us1 == GetOrCreateUser(us, referrer_id, NoProfile)
        us2 == GetOrCreateUser(us1, referred_id, NoProfile)
        referrer == us1[referrer_id]
        referred == us2[referred_id]
    IN  IF AwardReferralRaises(us, referrer_id, referred_id) THEN us2
        ELSE IF referred_id \in referrer.referred_users THEN us2
        ELSE [us2 EXCEPT
                ![referrer_id] =
                    AddEnergy([referrer EXCEPT !.referred_users = @ \cup {referred_id}],
                              DEFAULT_REFERRAL_ENERGY),
                ![referred_id] = referred]

AwardReferral(referrer_id, referred_id) ==
    UsersStep(AwardReferralUsers(users, referrer_id, referred_id))

\* grant_golden_card(user_id, duration)
GrantGoldenCardRaises(us, uid, duration) ==
    \/ duration <= 0
    \/ GetOrCreateUser(us, uid, NoProfile)[uid].is_banned

GrantGoldenCardUsers(us, uid, duration) ==
    IF duration <= 0 THEN us
    ELSE LET us1 == GetOrCreateUser(us, uid, NoProfile)
         IN  IF us1[uid].is_banned THEN us1
             ELSE [us1 EXCEPT ![uid] = AddGoldenCard(us1[uid], NewGoldenCard(duration))]

GrantGoldenCard(uid, duration) == UsersStep(GrantGoldenCardUsers(users, uid, duration))

\* purchase_golden_card(user_id, duration): the checks and the effect of
\* grant_golden_card; it returns the price instead of the user.
PurchaseGoldenCard(uid, duration) ==
    UsersStep(GrantGoldenCardUsers(users, uid, duration))

\* purchase_golden_card_with_energy(user_id, duration)
PurchaseGoldenCardWithEnergyRaises(us, uid, duration) ==
    \/ duration <= 0
    \/ EnergyCostUnavailable
    \/ LET user == GetOrCreateUser(us, uid, NoProfile)[uid]
       IN  user.is_banned \/ SpendEnergyRaises(user, EnergyCostForGoldenCard(duration))

\* purchase_golden_card_with_energy without its ban test (lines 196-197).
PurchaseGoldenCardWithEnergyUsersNoBanTest(us, uid, duration) ==
    IF duration <= 0 \/ EnergyCostUnavailable THEN us
    ELSE LET us1 == GetOrCreateUser(us, uid, NoProfile)
         IN  IF SpendEnergyRaises(us1[uid], EnergyCostForGoldenCard(duration)) THEN us1
             ELSE [us1 EXCEPT ![uid] =
                     AddGoldenCard(SpendEnergy(us1[uid], EnergyCostForGoldenCard(duration)),
                                   NewGoldenCard(duration))]

PurchaseGoldenCardWithEnergyUsers(us, uid, duration) ==
    IF duration <= 0 \/ EnergyCostUnavailable THEN us
    ELSE LET us1 == GetOrCreateUser(us, uid, NoProfile)
         IN  IF PurchaseGoldenCardWithEnergyRaises(us, uid, duration) THEN us1
             ELSE [us1 EXCEPT ![uid] =
                     AddGoldenCard(SpendEnergy(us1[uid], EnergyCostForGoldenCard(duration)),
                                   NewGoldenCard(duration))]

PurchaseGoldenCardWithEnergy(uid, duration) ==
    UsersStep(PurchaseGoldenCardWithEnergyUsers(users, uid, duration))

\* set_user_energy(user_id, energy)
SetUserEnergyRaises(us, uid, energy) == energy < 0

SetUserEnergyUsers(us, uid, energy) ==
    IF energy < 0 THEN us
    ELSE [GetOrCreateUser(us, uid, NoProfile) EXCEPT ![uid].energy = energy]

SetUserEnergy(uid, energy) == UsersStep(SetUserEnergyUsers(users, uid, energy))

\* adjust_user_energy(user_id, delta)
AdjustUserEnergyRaises(us, uid, delta) ==
    GetOrCreateUser(us, uid, NoProfile)[uid].energy + delta < 0

AdjustUserEnergyUsers(us, uid, delta) ==
    LET us1 == GetOrCreateUser(us, uid, NoProfile)
    IN  IF AdjustUserEnergyRaises(us, uid, delta) THEN us1
        ELSE [us1 EXCEPT ![uid].energy = @ + delta]

AdjustUserEnergy(uid, delta) == UsersStep(AdjustUserEnergyUsers(users, uid, delta))

\* set_user_banned(user_id, is_banned)
SetUserBannedUsers(us, uid, is_banned) ==
    [GetOrCreateUser(us, uid, NoProfile) EXCEPT ![uid].is_banned = is_banned]

SetUserBanned(uid, is_banned) == UsersStep(SetUserBannedUsers(users, uid, is_banned))

\* set_user_admin(user_id, is_admin)
SetUserAdminUsers(us, uid, is_admin) ==
    [GetOrCreateUser(us, uid, NoProfile) EXCEPT ![uid].is_admin = is_admin]

SetUserAdmin(uid, is_admin) == UsersStep(SetUserAdminUsers(users, uid, is_admin))

\* submit_post(user_id, text)
SubmitPostRaises(us, uid, text) ==
    LET user == GetOrCreateUser(us, uid, NoProfile)[uid]
    IN  \/ user.is_banned
        \/ ~IsAllowed(text)
        \/ SpendEnergyRaises(user, post_energy_cost)

\* submit_post with the charge moved ahead of the word filter.
SubmitPostUsersChargeBeforeFilter(us, uid, text) ==
    LET us1 == GetOrCreateUser(us, uid, NoProfile)
    IN  IF us1[uid].is_banned \/ SpendEnergyRaises(us1[uid], post_energy_cost) THEN us1
        ELSE [us1 EXCEPT ![uid] =
                PopActiveGoldenCard(SpendEnergy(us1[uid], post_energy_cost))]

SubmitPostUsers(us, uid, text) ==
    LET us1 == GetOrCreateUser(us, uid, NoProfile)
    IN  IF SubmitPostRaises(us, uid, text) THEN us1
        ELSE [us1 EXCEPT ![uid] =
                PopActiveGoldenCard(SpendEnergy(us1[uid], post_energy_cost))]

\* InMemoryStorage.add_post of a post without an id.
AddPost(ps, seq, post) ==
    [p \in DOMAIN ps \cup {seq} |-> IF p = seq THEN post ELSE ps[p]]

SubmitPostPosts(us, ps, seq, uid, text) ==
    IF SubmitPostRaises(us, uid, text) THEN ps
    ELSE AddPost(ps, seq, NewPost(uid, text,
                    ActiveCardIndex(GetOrCreateUser(us, uid, NoProfile)[uid]) # 0))

SubmitPost(uid, text) ==
    /\ SubmitPostRaises(users, uid, text) \/ post_sequence <= MaxPosts
    /\ users' = SubmitPostUsers(users, uid, text)
    /\ posts' = SubmitPostPosts(users, posts, post_sequence, uid, text)
    /\ post_sequence' = IF SubmitPostRaises(users, uid, text)
                        THEN post_sequence ELSE post_sequence + 1
    /\ UNCHANGED <<RunVars, invoices, settings, ServiceVars, now, BotVars,
                   SupportVars, OutsideVars>>

-----------------------------------------------------------------------------
(* services.py: settings *)

\* apply_settings(settings): the service's post cost and unit price afterwards.
ApplySettings(s) ==
    /\ post_energy_cost' = s.post_energy_cost
    /\ pricing' = ConvertRubToUsd(s.energy_price_per_unit)

\* update_post_price without its test of the cost (lines 382-383).
UpdatePostPriceRaisesNever(cost) == FALSE

\* update_post_price(cost): whether the call raises ValueError.
UpdatePostPriceRaises(cost) == cost <= 0

UpdatePostPrice(cost) ==
    /\ IF UpdatePostPriceRaises(cost)
       THEN UNCHANGED <<settings, ServiceVars>>
       ELSE /\ settings' = [settings EXCEPT !.post_energy_cost = cost]
            /\ ApplySettings(settings')
    /\ UNCHANGED <<RunVars, users, posts, post_sequence, invoices, now, BotVars, SupportVars, OutsideVars>>

\* update_energy_price(price)
UpdateEnergyPrice(price) ==
    /\ IF price <= 0
       THEN UNCHANGED <<settings, ServiceVars>>
       ELSE /\ settings' = [settings EXCEPT !.energy_price_per_unit = price]
            /\ ApplySettings(settings')
    /\ UNCHANGED <<RunVars, users, posts, post_sequence, invoices, now, BotVars, SupportVars, OutsideVars>>

\* ChannelEconomyService(..., post_energy_cost=cost): the fields the dataclass
\* sets before __post_init__; PricingConfig() has energy_price_per_unit 1.0.
ServiceFields(cost) ==
    [post_energy_cost |-> cost,
     pricing |-> [num |-> DefaultEnergyPricePerUnit, den |-> 1]]

\* __post_init__ without its call of apply_settings (line 38).
PostInitKeepsFields(fields, s) == fields

\* __post_init__: apply_settings(storage.get_settings()) over the fields.
PostInit(fields, s) ==
    [fields EXCEPT !.post_energy_cost = s.post_energy_cost,
                   !.pricing = ConvertRubToUsd(s.energy_price_per_unit)]

\* A service is constructed over the storage as it is, as at a start of the
\* bot, with any post cost handed to the constructor.
ConstructService(cost) ==
    /\ post_energy_cost' = PostInit(ServiceFields(cost), settings).post_energy_cost
    /\ pricing' = PostInit(ServiceFields(cost), settings).pricing
    /\ UNCHANGED <<RunVars, StorageVars, now, BotVars, SupportVars, OutsideVars>>

\* set_autopost_paused(paused)
SetAutopostPaused(paused) ==
    /\ settings' = [settings EXCEPT !.autopost_paused = paused]
    /\ UNCHANGED <<RunVars, users, posts, post_sequence, invoices, ServiceVars, now, BotVars,
                   SupportVars, OutsideVars>>

-----------------------------------------------------------------------------
(* services.py: moderation and publication of posts *)

PostExists(ps, pid) == pid \in DOMAIN ps

AuthorBanned(us, ps, pid) ==
    UserExists(us, ps[pid].user_id) /\ us[ps[pid].user_id].is_banned

PostsStep(ps) ==
    /\ posts' = ps
    /\ UNCHANGED <<RunVars, users, post_sequence, invoices, settings, ServiceVars, now, BotVars,
                   SupportVars, OutsideVars>>

\* approve_post without its ban test (lines 437-441).
ApprovePostPostsNoBanTest(us, ps, pid) ==
    IF ~PostExists(ps, pid) THEN ps
    ELSE [ps EXCEPT ![pid].status = "approved"]

\* approve_post(post_id): the stored posts afterwards.
ApprovePostPosts(us, ps, pid) ==
    IF ~PostExists(ps, pid) THEN ps
    ELSE IF AuthorBanned(us, ps, pid)
    THEN [ps EXCEPT ![pid].status = "cancelled"]
    ELSE [ps EXCEPT ![pid].status = "approved"]

\* ... and the post it returns (0 for None).
ApprovePostReturns(us, ps, pid) ==
    IF ~PostExists(ps, pid) \/ AuthorBanned(us, ps, pid) THEN 0 ELSE pid

ApprovePost(pid) == PostsStep(ApprovePostPosts(users, posts, pid))

\* reject_post(post_id): the stored posts and users afterwards.
RejectPostPosts(ps, pid) ==
    IF ~PostExists(ps, pid) THEN ps
    ELSE [ps EXCEPT ![pid].status = "rejected"]

\* reject_post without its test for an already rejected post (lines 450-451).
RejectPostUsersNoRejectedTest(us, ps, pid) ==
    IF ~PostExists(ps, pid) THEN us
    ELSE LET us1 == GetOrCreateUser(us, ps[pid].user_id, NoProfile)
         IN  [us1 EXCEPT ![ps[pid].user_id] = AddEnergy(@, post_energy_cost)]

RejectPostUsers(us, ps, pid) ==
    IF ~PostExists(ps, pid) \/ ps[pid].status = "rejected" THEN us
    ELSE LET us1 == GetOrCreateUser(us, ps[pid].user_id, NoProfile)
             user == us1[ps[pid].user_id]
         IN  IF AddEnergyRaises(user, post_energy_cost) THEN us1
             ELSE [us1 EXCEPT ![ps[pid].user_id] = AddEnergy(user, post_energy_cost)]

RejectPost(pid) ==
    /\ EnergyWithin(RejectPostUsers(users, posts, pid))
    /\ posts' = RejectPostPosts(posts, pid)
    /\ users' = RejectPostUsers(users, posts, pid)
    /\ UNCHANGED <<RunVars, post_sequence, invoices, settings, ServiceVars, now, BotVars,
                   SupportVars, OutsideVars>>

RECURSIVE ReserveScanNoCancel(_, _, _, _)
\* reserve_next_post passing over a banned author's post without cancelling it
\* (lines 332-333 removed).
ReserveScanNoCancel(ps, us, list, i) ==
    IF i > Len(list) THEN [posts |-> ps, ret |-> 0]
    ELSE IF UserExists(us, ps[list[i]].user_id) /\ us[ps[list[i]].user_id].is_banned
         THEN ReserveScanNoCancel(ps, us, list, i + 1)
         ELSE [posts |-> [ps EXCEPT ![list[i]].status = "publishing"], ret |-> list[i]]

RECURSIVE ReserveScan(_, _, _, _)
\* The loop of reserve_next_post over the snapshot `list` of approved posts:
\* the posts afterwards and the id returned (0 for None).  Every post of the
\* snapshot has status approved, so the test on line 335 always passes.
ReserveScan(ps, us, list, i) ==
    IF i > Len(list) THEN [posts |-> ps, ret |-> 0]
    ELSE IF AuthorBanned(us, ps, list[i])
         THEN ReserveScan([ps EXCEPT ![list[i]].status = "cancelled"], us, list, i + 1)
         ELSE [posts |-> [ps EXCEPT ![list[i]].status = "publishing"], ret |-> list[i]]

\* reserve_next_post returning the post without saving it as publishing.
ReserveResultNotSaved(ps, us) ==
    LET r == ReserveScan(ps, us, ListPostsByStatus(ps, "approved"), 1)
    IN  IF r.ret = 0 THEN r
        ELSE [posts |-> [r.posts EXCEPT ![r.ret].status = "approved"], ret |-> r.ret]

\* reserve_next_post(): the stored posts afterwards and the post returned.
ReserveResult(ps, us) == ReserveScan(ps, us, ListPostsByStatus(ps, "approved"), 1)

ReserveNextPost == PostsStep(ReserveResult(posts, users).posts)

MessageIds == { [channel |-> 10, chat |-> 0], [channel |-> 10, chat |-> 11] }

\* mark_post_published that also clears requires_pin once the post is out.
MarkPostPublishedPostsUnpins(ps, pid, msg) ==
    IF ~PostExists(ps, pid) THEN ps
    ELSE [ps EXCEPT ![pid].status = "published",
                    ![pid].requires_pin = FALSE,
                    ![pid].channel_message_id = msg.channel,
                    ![pid].chat_message_id = msg.chat]

\* mark_post_published(post_id, channel_message_id=, chat_message_id=)
MarkPostPublishedPosts(ps, pid, msg) ==
    IF ~PostExists(ps, pid) THEN ps
    ELSE [ps EXCEPT ![pid].status = "published",
                    ![pid].channel_message_id = msg.channel,
                    ![pid].chat_message_id = msg.chat]

MarkPostPublished(pid, msg) == PostsStep(MarkPostPublishedPosts(posts, pid, msg))

\* mark_post_failed leaving the status as it is (line 361 removed).
MarkPostFailedPostsKeepsStatus(ps, pid) == ps

\* mark_post_failed(post_id)
MarkPostFailedPosts(ps, pid) ==
    IF ~PostExists(ps, pid) THEN ps
    ELSE [ps EXCEPT ![pid].status = "approved"]

MarkPostFailed(pid) == PostsStep(MarkPostFailedPosts(posts, pid))

ActiveStatuses == {"pending", "approved", "publishing"}

\* cancel_posts_for_user listing only the pending and approved posts (line 425
\* without "publishing").
CancelPostsForUserPostsNotPublishing(ps, uid) ==
    LET hit == ListPostsForUser(ps, uid, {"pending", "approved"})
        ids == { hit[i] : i \in 1..Len(hit) }
    IN  [p \in DOMAIN ps |->
            IF p \in ids THEN [ps[p] EXCEPT !.status = "cancelled"] ELSE ps[p]]

\* cancel_posts_for_user(user_id): the count it returns ...
CancelPostsForUserReturns(ps, uid) ==
    Len(ListPostsForUser(ps, uid, ActiveStatuses))

\* ... and the stored posts afterwards.
CancelPostsForUserPosts(ps, uid) ==
    LET hit == ListPostsForUser(ps, uid, ActiveStatuses)
        ids == { hit[i] : i \in 1..Len(hit) }
    IN  [p \in DOMAIN ps |->
            IF p \in ids THEN [ps[p] EXCEPT !.status = "cancelled"] ELSE ps[p]]

CancelPostsForUser(uid) == PostsStep(CancelPostsForUserPosts(posts, uid))

-----------------------------------------------------------------------------
(* services.py: invoices *)

NoInvoice == [absent |-> TRUE]

InvoiceExists(invs, inv) == invs[inv] # NoInvoice

\* mark_invoice_paid with paid_at set on every call (line 226 without the `or`).
MarkInvoicePaidInvoicesAlwaysNow(invs, inv) ==
    IF ~InvoiceExists(invs, inv) THEN invs
    ELSE [invs EXCEPT ![inv] = [@ EXCEPT !.status = "paid", !.paid_at = now]]

\* mark_invoice_paid(invoice_id): the stored invoices afterwards.
MarkInvoicePaidInvoices(invs, inv) ==
    IF ~InvoiceExists(invs, inv) THEN invs
    ELSE [invs EXCEPT ![inv] = [@ EXCEPT
             !.status = "paid",
             !.paid_at = IF @ # NoTime THEN @ ELSE now]]

\* mark_invoice_paid(invoice_id) as one call.
MarkInvoicePaid(inv) ==
    /\ invoices' = MarkInvoicePaidInvoices(invoices, inv)
    /\ UNCHANGED <<RunVars, users, posts, post_sequence, settings, ServiceVars, now,
                   BotVars, SupportVars, OutsideVars>>

\* record_invoice(invoice), as the purchase handlers call it once the gateway
\* has created the invoice (bot.py handle_energy_selection and
\* handle_golden_payment_selection): the user is registered and not banned,
\* and the gateway hands out a fresh invoice id.
CreateInvoice(inv, uid, invoice_type, quantity) ==
    /\ ~InvoiceExists(invoices, inv)
    /\ UserExists(users, uid) /\ ~users[uid].is_banned
    /\ invoices' = [invoices EXCEPT ![inv] = NewInvoice(uid, invoice_type, quantity)]
    /\ remote' = [remote EXCEPT ![inv] = "active"]
    /\ UNCHANGED <<RunVars, users, posts, post_sequence, settings, ServiceVars, now,
                   checks, callers, fulfilled,
                   SupportVars, OutsideVars>>

-----------------------------------------------------------------------------
(* bot.py: handle_invoice_check, split at its await of the payment gateway *)

PAID_INVOICE_STATUSES == {"paid", "completed"}

IdleCheck == [pc |-> "idle", invoice_id |-> 0, stored |-> NoInvoice]

\* The payer settles the invoice at the gateway.
GatewayPay(inv) ==
    /\ remote[inv] = "active"
    /\ remote' = [remote EXCEPT ![inv] = "paid"]
    /\ UNCHANGED <<RunVars, StorageVars, ServiceVars, now, checks, callers, fulfilled,
                   SupportVars, OutsideVars>>

\* Lines 1578-1617: sync_user_profile, read the stored invoice, return early
\* when it is missing, not the caller's, or already paid; else ask the gateway.
InvoiceCheckStart(k, inv, uid, profile) ==
    /\ checks[k].pc = "idle"
    /\ users' = IF UserExists(users, uid)
                THEN GetOrCreateUser(users, uid, profile) ELSE users
    /\ IF \/ ~InvoiceExists(invoices, inv)
          \/ invoices[inv].user_id # uid
          \/ invoices[inv].status \in PAID_INVOICE_STATUSES
       THEN UNCHANGED checks
       ELSE checks' = [checks EXCEPT ![k] =
               [pc |-> "await", invoice_id |-> inv, stored |-> invoices[inv]]]
    /\ UNCHANGED <<RunVars, posts, post_sequence, invoices, settings, ServiceVars, now,
                   remote, callers, fulfilled,
                   SupportVars, OutsideVars>>

\* The fulfilment of the invoice copy `stored` (lines 1628-1657): whether it
\* was applied, and the users after it.
FulfilApplied(us, stored) ==
    IF stored.invoice_type = "energy" /\ stored.energy_amount # 0
    THEN ~CreditEnergyRaises(us, stored.user_id, stored.energy_amount)
    ELSE IF stored.invoice_type = "golden" /\ stored.golden_hours # 0
    THEN ~GrantGoldenCardRaises(us, stored.user_id, stored.golden_hours)
    ELSE FALSE

FulfilUsers(us, stored) ==
    IF stored.invoice_type = "energy" /\ stored.energy_amount # 0
    THEN CreditEnergyUsers(us, stored.user_id, stored.energy_amount)
    ELSE IF stored.invoice_type = "golden" /\ stored.golden_hours # 0
    THEN GrantGoldenCardUsers(us, stored.user_id, stored.golden_hours)
    ELSE us

\* Lines 1611-1624 without the test of the invoice's status at the gateway.
GatewayConfirmsUnlessError(reply) == reply # "error"

\* Lines 1611-1624: whether the handler goes on after the gateway's answer; it
\* returns on CryptoPayError and on a status that is not a paid one.
GatewayConfirms(reply) == reply # "error" /\ reply \in PAID_INVOICE_STATUSES

\* Lines 1617-1665: the gateway's answer (its status of the invoice, or
\* "error" for CryptoPayError); on a paid status mark_invoice_paid and then the
\* fulfilment from the invoice copy read before the await.
InvoiceCheckReply(k, reply) ==
    LET inv == checks[k].invoice_id
        stored == checks[k].stored
    IN  /\ checks[k].pc = "await"
        /\ reply \in {"error", remote[inv]}
        /\ checks' = [checks EXCEPT ![k] = IdleCheck]
        /\ IF ~GatewayConfirms(reply)
           THEN UNCHANGED <<users, invoices, fulfilled>>
           ELSE /\ EnergyWithin(FulfilUsers(users, stored))
                /\ CardsWithin(FulfilUsers(users, stored))
                /\ invoices' = MarkInvoicePaidInvoices(invoices, inv)
                /\ users' = FulfilUsers(users, stored)
                /\ fulfilled' = IF FulfilApplied(users, stored)
                                THEN [fulfilled EXCEPT ![inv] = @ + 1]
                                ELSE fulfilled
        /\ UNCHANGED <<RunVars, posts, post_sequence, settings, ServiceVars, now,
                       remote, callers,
                   SupportVars, OutsideVars>>

-----------------------------------------------------------------------------
(* The clock *)

Tick ==
    /\ now < MaxTime
    /\ now' = now + 1
    /\ UNCHANGED <<RunVars, StorageVars, ServiceVars, BotVars,
                   SupportVars, OutsideVars>>

-----------------------------------------------------------------------------
(* The service after construction over an empty storage (build_service) *)

DefaultSettings ==
    [autopost_paused |-> FALSE,
     post_energy_cost |-> DefaultPostEnergyCost,
     energy_price_per_unit |-> DefaultEnergyPricePerUnit]

\* InMemoryStorage.__init__ for the tickets; no storage file and no caller yet.
InitSupport ==
    /\ tickets = <<>>
    /\ ticket_sequence = 1
    /\ ticket_message_sequence = 1
    /\ disk = NoFile
    /\ handle = NoHandle

IdleJob == [pc |-> "idle", post_id |-> 0]

IdleCall == [pc |-> "idle"]

\* The handlers that may be inside a service call at once.
InvocationIds == {1, 2}

\* No autopost job and no handler is running; `text` is the text the filter
\* will be called with.
InitRunWith(text) ==
    /\ job = IdleJob
    /\ inflight = [c \in InvocationIds |-> IdleCall]
    /\ serial = users
    /\ filter_text = text
    /\ filter_result = "none"
    /\ registered = {}
    /\ charged = <<>>
    /\ refunded = <<>>
    /\ boot = "opened"

InitRun == InitRunWith(<<>>)

InitService ==
    /\ users = [u \in UserIds |-> NoUser]
    /\ posts = <<>>
    /\ post_sequence = 1
    /\ invoices = [i \in InvoiceIds |-> NoInvoice]
    /\ settings = DefaultSettings
    /\ post_energy_cost = DefaultSettings.post_energy_cost
    /\ pricing = ConvertRubToUsd(DefaultSettings.energy_price_per_unit)
    /\ now = 0
    /\ checks = [k \in CheckIds |-> IdleCheck]
    /\ remote = [i \in InvoiceIds |-> "none"]
    /\ callers = [c \in CallerIds |-> <<>>]
    /\ fulfilled = [i \in InvoiceIds |-> 0]
    /\ InitSupport

Init == InitService /\ InitRun

\* The service with a text about to be checked by its word filter.
InitFilter == InitService /\ \E t \in FilterTexts : InitRunWith(t)

\* Posting and golden cards: calls that buy energy and cards and spend them on
\* posts, with bans, balance corrections and price changes between them.
Next ==
    \/ \E u \in UserIds, sub \in BOOLEAN : RegisterUser(u, sub, NoProfile)
    \/ \E u \in UserIds, a \in Amounts : PurchaseEnergy(u, a)
    \/ \E u \in UserIds, t \in Texts : SubmitPost(u, t)
    \/ \E u \in UserIds, d \in Durations : GrantGoldenCard(u, d)
    \/ \E u \in UserIds, d \in Durations : PurchaseGoldenCard(u, d)
    \/ \E u \in UserIds, d \in Durations : PurchaseGoldenCardWithEnergy(u, d)
    \/ \E u \in UserIds, e \in Amounts : SetUserEnergy(u, e)
    \/ \E u \in UserIds, b \in BOOLEAN : SetUserBanned(u, b)
    \/ \E c \in Costs : UpdatePostPrice(c)
    \/ \E p \in PostIds : RejectPost(p)

Spec == Init /\ [][Next]_vars

\* Every operation that changes a user's energy, in any order.
NextEnergy ==
    \/ \E u \in UserIds, sub \in BOOLEAN : RegisterUser(u, sub, NoProfile)
    \/ \E u \in UserIds, a \in Amounts : PurchaseEnergy(u, a)
    \/ \E u \in UserIds, a \in Amounts : CreditEnergy(u, a)
    \/ \E a, b \in UserIds : AwardReferral(a, b)
    \/ \E u \in UserIds, t \in Texts : SubmitPost(u, t)
    \/ \E u \in UserIds, d \in Durations : PurchaseGoldenCardWithEnergy(u, d)
    \/ \E u \in UserIds, e \in Amounts : SetUserEnergy(u, e)
    \/ \E u \in UserIds, d \in Amounts : AdjustUserEnergy(u, d)
    \/ \E c \in Costs : UpdatePostPrice(c)
    \/ \E p \in PostIds : RejectPost(p)

SpecEnergy == Init /\ [][NextEnergy]_vars

\* Registration, profiles, referrals and energy top-ups.
NextUsers ==
    \/ \E u \in UserIds, sub \in BOOLEAN, pr \in Profiles : RegisterUser(u, sub, pr)
    \/ \E u \in UserIds, a \in Amounts : PurchaseEnergy(u, a)
    \/ \E u \in UserIds, a \in Amounts : CreditEnergy(u, a)
    \/ \E a, b \in UserIds : AwardReferral(a, b)
    \/ \E u \in UserIds, b \in BOOLEAN : SetUserBanned(u, b)
    \/ \E u \in UserIds, b \in BOOLEAN : SetUserAdmin(u, b)
    \/ \E u \in UserIds, e \in Amounts : SetUserEnergy(u, e)

SpecUsers == Init /\ [][NextUsers]_vars

\* The life of a post: submission, moderation, reservation and publication,
\* with bans and pauses of the autoposter in between.
NextModeration ==
    \/ \E u \in UserIds : RegisterUser(u, TRUE, NoProfile)
    \/ \E u \in UserIds : SubmitPost(u, TextHello)
    \/ \E u \in UserIds, b \in BOOLEAN : SetUserBanned(u, b)
    \/ \E c \in Costs : UpdatePostPrice(c)
    \/ \E p \in PostIds : ApprovePost(p)
    \/ \E p \in PostIds : RejectPost(p)
    \/ ReserveNextPost
    \/ \E p \in PostIds, m \in MessageIds : MarkPostPublished(p, m)
    \/ \E p \in PostIds : MarkPostFailed(p)
    \/ \E u \in UserIds : CancelPostsForUser(u)
    \/ \E paused \in BOOLEAN : SetAutopostPaused(paused)

SpecModeration == Init /\ [][NextModeration]_vars

\* What the bot sells for an invoice: an amount of energy, or the hours of a
\* golden card.
InvoiceKinds == { [type |-> "energy", quantity |-> 50],
                  [type |-> "golden", quantity |-> 1] }

GatewayReplies == {"error", "active", "paid"}

\* Payments: invoices are created, paid at the gateway and confirmed by
\* handle_invoice_check, several of which may be waiting for the gateway at
\* once; an administrator may ban or unban the owner or set the balance.
NextInvoice ==
    \/ \E u \in UserIds : RegisterUser(u, TRUE, NoProfile)
    \/ \E u \in UserIds, b \in BOOLEAN : SetUserBanned(u, b)
    \/ \E u \in UserIds : SetUserEnergy(u, 0)
    \/ \E i \in InvoiceIds, u \in UserIds, k \in InvoiceKinds :
           CreateInvoice(i, u, k.type, k.quantity)
    \/ \E i \in InvoiceIds : GatewayPay(i)
    \/ \E k \in CheckIds, i \in InvoiceIds, u \in UserIds, pr \in Profiles :
           InvoiceCheckStart(k, i, u, pr)
    \/ \E k \in CheckIds, r \in GatewayReplies : InvoiceCheckReply(k, r)

SpecInvoice == Init /\ [][NextInvoice]_vars

\* The golden-card shop over time: cards are granted and bought for money or
\* energy at a unit price the administrator changes; users are banned and
\* unbanned.
NextShop ==
    \/ \E u \in UserIds : RegisterUser(u, TRUE, NoProfile)
    \/ \E u \in UserIds, b \in BOOLEAN : SetUserBanned(u, b)
    \/ \E u \in UserIds, d \in Durations : GrantGoldenCard(u, d)
    \/ \E u \in UserIds, d \in Durations : PurchaseGoldenCard(u, d)
    \/ \E u \in UserIds, d \in Durations : PurchaseGoldenCardWithEnergy(u, d)
    \/ \E price \in Prices : UpdateEnergyPrice(price)
    \/ Tick

SpecShop == Init /\ [][NextShop]_vars

\* A step that touches only the stored users, for a collector of golden
\* cards: up to MaxHeld cards per user.
CardsStep(us) ==
    /\ EnergyWithin(us)
    /\ \A u \in UserIds : UserExists(us, u) => Len(us[u].golden_cards) <= MaxHeld
    /\ users' = us
    /\ UNCHANGED <<RunVars, posts, post_sequence, invoices, settings, ServiceVars, now, BotVars,
                   SupportVars, OutsideVars>>

CollectGoldenCard(uid, duration) ==
    CardsStep(GrantGoldenCardUsers(users, uid, duration))

\* Posting with golden cards in hand: users collect cards over time, some
\* expire, and posts are submitted.
NextCards ==
    \/ \E u \in UserIds : RegisterUser(u, TRUE, NoProfile)
    \/ \E u \in UserIds, d \in Durations : CollectGoldenCard(u, d)
    \/ \E u \in UserIds, t \in Texts : SubmitPost(u, t)
    \/ Tick

SpecCards == Init /\ [][NextCards]_vars

-----------------------------------------------------------------------------
(* Callers of reserve_next_post over a queue of moderated posts *)

\* A queue as submit_post and approve_post leave it: every author registered
\* and charged the default cost per post, the posts created one after another
\* at times up to now, each pending or approved, and any author banned since.
QueuedPost(author, status, at) ==
    [NewPost(author, TextHello, FALSE) EXCEPT !.status = status, !.created_at = at]

AuthoredIn(ps, u) == Cardinality({ p \in DOMAIN ps : ps[p].user_id = u })

InitReserve ==
    /\ now = MaxTime
    /\ \E n \in 0..MaxQueue :
         /\ posts \in [1..n -> { QueuedPost(a, st, at) :
                                   a \in UserIds, st \in {"pending", "approved"},
                                   at \in 0..MaxTime }]
         /\ \A p, q \in 1..n : p < q => posts[p].created_at <= posts[q].created_at
         /\ post_sequence = n + 1
    /\ \E banned \in [UserIds -> BOOLEAN] :
         users = [u \in UserIds |->
                    [AddEnergy(NewUser(NoProfile),
                               DEFAULT_REGISTRATION_ENERGY
                                 - DefaultPostEnergyCost * AuthoredIn(posts, u))
                       EXCEPT !.is_banned = banned[u]]]
    /\ invoices = [i \in InvoiceIds |-> NoInvoice]
    /\ settings = DefaultSettings
    /\ post_energy_cost = DefaultSettings.post_energy_cost
    /\ pricing = ConvertRubToUsd(DefaultSettings.energy_price_per_unit)
    /\ checks = [k \in CheckIds |-> IdleCheck]
    /\ remote = [i \in InvoiceIds |-> "none"]
    /\ callers = [c \in CallerIds |-> <<>>]
    /\ fulfilled = [i \in InvoiceIds |-> 0]
    /\ InitSupport
    /\ InitRun

\* Caller c calls reserve_next_post() and keeps what it was handed (0 for None).
CallReserveNextPost(c) ==
    /\ Len(callers[c]) < MaxCalls
    /\ posts' = ReserveResult(posts, users).posts
    /\ callers' = [callers EXCEPT ![c] = Append(@, ReserveResult(posts, users).ret)]
    /\ UNCHANGED <<RunVars, users, post_sequence, invoices, settings, ServiceVars, now,
                   checks, remote, fulfilled,
                   SupportVars, OutsideVars>>

NextReserve == \E c \in CallerIds : CallReserveNextPost(c)

SpecReserve == InitReserve /\ [][NextReserve]_vars

-----------------------------------------------------------------------------
(* models.py Ticket and storage.py: the persisted JSON representation.  An  *)
(* ISO timestamp is modelled as the one-element sequence of its time and    *)
(* JSON null as the empty sequence; a duration is stored in seconds.  A     *)
(* ticket text is written "" when empty (a subject of None is "" too).      *)

Epoch == 0

\* _datetime_to_iso / _iso_to_datetime: a falsy value reads back as None.
DatetimeToIso(value) == IF value = NoTime THEN <<>> ELSE <<value>>
IsoToDatetime(value) == IF value = <<>> THEN NoTime ELSE value[1]

\* `_iso_to_datetime(...) or datetime.fromtimestamp(0, tz=timezone.utc)`
IsoToDatetimeOrEpoch(value) ==
    IF IsoToDatetime(value) = NoTime THEN Epoch ELSE IsoToDatetime(value)

SerializeGoldenCard(card) ==
    [duration_seconds |-> card.duration * 3600,
     purchased_at |-> DatetimeToIso(card.purchased_at)]

\* A payload whose purchase time is missing is read as bought at load time.
DeserializeGoldenCard(payload) ==
    [duration |-> payload.duration_seconds \div 3600,
     purchased_at |-> IF IsoToDatetime(payload.purchased_at) = NoTime THEN now
                      ELSE IsoToDatetime(payload.purchased_at)]

\* sorted(set of ids): the increasing list of its members.
Sorted(ids) ==
    CHOOSE s \in [1..Cardinality(ids) -> ids] :
        \A i, j \in 1..Cardinality(ids) : i < j => s[i] < s[j]

\* _serialize_user without the golden cards (lines 107-111 left out).
SerializeUserNoCards(user) ==
    [user EXCEPT !.golden_cards = <<>>, !.referred_users = Sorted(@)]

SerializeUser(user) ==
    [user EXCEPT
       !.golden_cards = [i \in 1..Len(@) |-> SerializeGoldenCard(@[i])],
       !.referred_users = Sorted(@)]

DeserializeUser(payload) ==
    [payload EXCEPT
       !.golden_cards = [i \in 1..Len(@) |-> DeserializeGoldenCard(@[i])],
       !.referred_users = { @[i] : i \in 1..Len(@) }]

SerializePost(post) == [post EXCEPT !.created_at = DatetimeToIso(@)]

DeserializePost(payload) ==
    [payload EXCEPT !.created_at = IsoToDatetimeOrEpoch(@),
                    !.status = IF @ = "" THEN "pending" ELSE @]

SerializeInvoice(invoice) == [invoice EXCEPT !.paid_at = DatetimeToIso(@)]

DeserializeInvoice(payload) ==
    [payload EXCEPT !.paid_at = IsoToDatetime(@),
                    !.status = IF @ = "" THEN "pending" ELSE @]

\* Ticket(ticket_id, user_id) as create_ticket constructs it.
NewTicket(user_id) ==
    [user_id |-> user_id, status |-> "open", subject |-> "",
     created_at |-> now, updated_at |-> now, messages |-> <<>>]

\* TicketMessage(message_id, ticket_id, sender, text)
NewTicketMessage(message_id, sender, text) ==
    [message_id |-> message_id, sender |-> sender, text |-> text,
     created_at |-> now]

\* add_message putting the message first instead of appending it (line 111).
AddMessagePrepend(ticket, message) ==
    [ticket EXCEPT
       !.messages = <<message>> \o @,
       !.updated_at = message.created_at,
       !.subject = IF @ = "" /\ message.sender = "user" THEN message.text ELSE @]

\* Ticket.add_message; the texts of the model are shorter than the 80
\* characters a subject keeps and carry no outer whitespace.
AddMessage(ticket, message) ==
    [ticket EXCEPT
       !.messages = Append(@, message),
       !.updated_at = message.created_at,
       !.subject = IF @ = "" /\ message.sender = "user" THEN message.text ELSE @]

\* sorted(messages, key=created_at): stable, equal times keep their order.
SortedByCreatedAt(messages) ==
    LET n == Len(messages)
        p == CHOOSE f \in [1..n -> 1..n] :
               /\ \A i, j \in 1..n : i # j => f[i] # f[j]
               /\ \A i, j \in 1..n : i < j =>
                    \/ messages[f[i]].created_at < messages[f[j]].created_at
                    \/ /\ messages[f[i]].created_at = messages[f[j]].created_at
                       /\ f[i] < f[j]
    IN  [i \in 1..n |-> messages[p[i]]]

RECURSIVE AddMessages(_, _, _)
AddMessages(ticket, messages, i) ==
    IF i > Len(messages) THEN ticket
    ELSE AddMessages(AddMessage(ticket, messages[i]), messages, i + 1)

SerializeTicket(ticket) ==
    [ticket EXCEPT
       !.created_at = DatetimeToIso(@),
       !.updated_at = DatetimeToIso(@),
       !.messages = [i \in 1..Len(@) |->
                       [@[i] EXCEPT !.created_at = DatetimeToIso(@)]]]

\* _deserialize_ticket: the ticket is built from the stored fields without
\* its messages, which are then added again one by one through add_message.
DeserializeTicket(payload) ==
    AddMessages(
        [payload EXCEPT
           !.status = IF @ = "" THEN "open" ELSE @,
           !.created_at = IsoToDatetimeOrEpoch(@),
           !.updated_at = IsoToDatetimeOrEpoch(@),
           !.messages = <<>>],
        SortedByCreatedAt(
            [i \in 1..Len(payload.messages) |->
               [payload.messages[i] EXCEPT !.created_at = IsoToDatetimeOrEpoch(@)]]),
        1)

-----------------------------------------------------------------------------
(* storage.py: JsonStorage, an InMemoryStorage that rewrites its file after  *)
(* every mutating call.  The file system accepts every write.                *)

\* JsonStorage._persist: the payload written from the in-memory state.
Persist ==
    [users |-> [u \in { v \in UserIds : UserExists(users, v) } |->
                  SerializeUser(users[u])],
     posts |-> [p \in DOMAIN posts |-> SerializePost(posts[p])],
     post_sequence |-> post_sequence,
     invoices |-> [i \in { j \in InvoiceIds : InvoiceExists(invoices, j) } |->
                     SerializeInvoice(invoices[i])],
     tickets |-> [t \in DOMAIN tickets |-> SerializeTicket(tickets[t])],
     settings |-> settings,
     ticket_sequence |-> ticket_sequence,
     ticket_message_sequence |-> ticket_message_sequence]

MaxKey(keys) == IF keys = {} THEN 0 ELSE CHOOSE k \in keys : \A j \in keys : j <= k

\* _load taking no sequence from the file: the counter of a new storage.
LoadPostSequenceFresh(payload) == 1

\* _load, lines 620-628: the stored sequence when it is a positive integer,
\* else one more than the largest post id of the file.
LoadPostSequence(payload) ==
    IF payload.post_sequence > 0 THEN payload.post_sequence
    ELSE MaxKey(DOMAIN payload.posts) + 1

\* JsonStorage.__init__ over the file: InMemoryStorage.__init__, then _load.
Load(file) ==
    IF file = NoFile
    THEN [users |-> [u \in UserIds |-> NoUser], posts |-> <<>>,
          post_sequence |-> 1, invoices |-> [i \in InvoiceIds |-> NoInvoice],
          tickets |-> <<>>, settings |-> DefaultSettings,
          ticket_sequence |-> 1, ticket_message_sequence |-> 1]
    ELSE [users |-> [u \in UserIds |->
                       IF u \in DOMAIN file.users
                       THEN DeserializeUser(file.users[u]) ELSE NoUser],
          posts |-> [p \in DOMAIN file.posts |-> DeserializePost(file.posts[p])],
          post_sequence |-> LoadPostSequence(file),
          invoices |-> [i \in InvoiceIds |->
                          IF i \in DOMAIN file.invoices
                          THEN DeserializeInvoice(file.invoices[i]) ELSE NoInvoice],
          tickets |-> [t \in DOMAIN file.tickets |->
                         DeserializeTicket(file.tickets[t])],
          settings |-> file.settings,
          ticket_sequence |->
              IF file.ticket_sequence > 0 THEN file.ticket_sequence
              ELSE MaxKey(DOMAIN file.tickets) + 1,
          ticket_message_sequence |->
              IF file.ticket_message_sequence > 0 THEN file.ticket_message_sequence
              ELSE MaxKey(UNION { { file.tickets[t].messages[i].message_id :
                                      i \in 1..Len(file.tickets[t].messages) } :
                                    t \in DOMAIN file.tickets }) + 1]

\* What a caller holds after a read: get_user, get_post, get_invoice,
\* get_settings and get_ticket return deepcopy(stored), an object of the
\* caller's own.  `shared` tells whether the caller's object is the stored one.
GetEntityNoCopy(kind, key, value) ==
    [kind |-> kind, key |-> key, value |-> value, shared |-> TRUE]

GetEntity(kind, key, value) ==
    [kind |-> kind, key |-> key, value |-> value, shared |-> FALSE]

EntityKinds == {"user", "post", "invoice", "settings", "ticket"}

\* The ids under which the storage holds an entity of the kind.
StoredKeys(kind) ==
    CASE kind = "user" -> { u \in UserIds : UserExists(users, u) }
      [] kind = "post" -> DOMAIN posts
      [] kind = "invoice" -> { i \in InvoiceIds : InvoiceExists(invoices, i) }
      [] kind = "settings" -> {1}
      [] kind = "ticket" -> DOMAIN tickets

Stored(kind, key) ==
    CASE kind = "user" -> users[key]
      [] kind = "post" -> posts[key]
      [] kind = "invoice" -> invoices[key]
      [] kind = "settings" -> settings
      [] kind = "ticket" -> tickets[key]

\* The entities a caller constructs: a user as registered or with a balance,
\* a card and referrals; a post as submitted or published; an invoice as
\* recorded or paid; the settings as shipped or changed by an admin.
Constructed(kind) ==
    CASE kind = "user" ->
           { NewUser(NoProfile),
             [NewUser(NoProfile) EXCEPT !.energy = DEFAULT_REGISTRATION_ENERGY,
                                        !.golden_cards = <<NewGoldenCard(1)>>,
                                        !.referred_users = UserIds] }
      [] kind = "post" ->
           { NewPost(1, TextHello, FALSE),
             [NewPost(1, TextHello, TRUE) EXCEPT !.status = "published",
                                                 !.channel_message_id = 10] }
      [] kind = "invoice" ->
           { NewInvoice(1, "energy", 50),
             [NewInvoice(1, "golden", 1) EXCEPT !.status = "paid", !.paid_at = now] }
      [] kind = "settings" ->
           { DefaultSettings,
             [DefaultSettings EXCEPT !.autopost_paused = TRUE] }
      [] kind = "ticket" -> {}

\* The values a caller may give the entity it holds.
Assignable(h) ==
    CASE h.kind = "none" -> {}
      [] h.kind = "ticket" ->
           { [h.value EXCEPT !.status = s] : s \in {"open", "closed"} }
      [] OTHER -> Constructed(h.kind)

\* The object stored under the key becomes the value.
Assign(kind, key, value) ==
    /\ users' = IF kind = "user" THEN [users EXCEPT ![key] = value] ELSE users
    /\ posts' = IF kind = "post" THEN AddPost(posts, key, value) ELSE posts
    /\ invoices' = IF kind = "invoice" THEN [invoices EXCEPT ![key] = value]
                   ELSE invoices
    /\ settings' = IF kind = "settings" THEN value ELSE settings
    /\ tickets' = IF kind = "ticket" THEN [tickets EXCEPT ![key] = value]
                  ELSE tickets

\* A caller constructs an entity: User(user_id=1), Post(...) without an id
\* (key 0), Invoice(invoice_id=1, ...), BotSettings(...).
NewHandle(kind, value) ==
    /\ handle' = [kind |-> kind, key |-> IF kind = "post" THEN 0 ELSE 1,
                  value |-> value, shared |-> FALSE]
    /\ UNCHANGED <<RunVars, StorageVars, ServiceVars, now, BotVars, SupportVars, disk>>

\* storage.get_user(key), get_post(key), get_invoice(key), get_settings(),
\* get_ticket(key) of an entity the storage holds.
JsonStorageGet(kind, key) ==
    /\ key \in StoredKeys(kind)
    /\ handle' = GetEntity(kind, key, Stored(kind, key))
    /\ UNCHANGED <<RunVars, StorageVars, ServiceVars, now, BotVars, SupportVars, disk>>

\* The caller assigns to the fields of the object it holds.  No storage
\* method runs: the storage changes only if it holds that very object.
MutateHandle(value) ==
    /\ value # handle.value
    /\ handle' = [handle EXCEPT !.value = value]
    /\ IF handle.shared
       THEN Assign(handle.kind, handle.key, value)
       ELSE UNCHANGED <<users, posts, invoices, settings, tickets>>
    /\ UNCHANGED <<RunVars, post_sequence, ServiceVars, now, BotVars, ticket_sequence,
                   ticket_message_sequence, disk>>

\* storage.save_user / save_invoice / save_settings / save_ticket / save_post
\* of the held entity, or add_post when it is a post without an id: the
\* storage keeps a deepcopy, assigns the id to the caller's post, and
\* rewrites the file.
JsonStorageSave ==
    /\ handle.kind # "none"
    /\ LET adds == handle.kind = "post" /\ handle.key = 0
           key  == IF adds THEN post_sequence ELSE handle.key
       IN  /\ adds => post_sequence <= MaxStored
           /\ Assign(handle.kind, key, handle.value)
           /\ post_sequence' = IF adds THEN post_sequence + 1 ELSE post_sequence
           /\ handle' = [handle EXCEPT !.key = key]
    /\ UNCHANGED <<RunVars, ServiceVars, now, BotVars, ticket_sequence,
                   ticket_message_sequence>>
    /\ disk' = Persist'

\* JsonStorage(path) constructed anew on the file; the caller holds nothing
\* of the new storage.
ReopenStorage ==
    /\ \E loaded \in {Load(disk)} :
         /\ users' = loaded.users
         /\ posts' = loaded.posts
         /\ post_sequence' = loaded.post_sequence
         /\ invoices' = loaded.invoices
         /\ settings' = loaded.settings
         /\ tickets' = loaded.tickets
         /\ ticket_sequence' = loaded.ticket_sequence
         /\ ticket_message_sequence' = loaded.ticket_message_sequence
    /\ handle' = NoHandle
    /\ UNCHANGED <<RunVars, ServiceVars, now, BotVars, disk>>

-----------------------------------------------------------------------------
(* services.py: support tickets, over a JsonStorage *)

TicketTexts == {"", "hi", "re"}
Senders == {"user", "admin", "bot"}

\* open_ticket(user_id, message): create_ticket stores the ticket with its
\* first message and rewrites the file.
OpenTicket(uid, message) ==
    LET raises == message = "" \/ (UserExists(users, uid) /\ users[uid].is_banned)
    IN  /\ raises \/ (ticket_sequence <= MaxTickets
                        /\ ticket_message_sequence <= MaxMessages)
        /\ users' = IF message = "" THEN users
                    ELSE GetOrCreateUser(users, uid, NoProfile)
        /\ tickets' = IF raises THEN tickets
                      ELSE AddPost(tickets, ticket_sequence,
                             AddMessage(NewTicket(uid),
                               NewTicketMessage(ticket_message_sequence, "user", message)))
        /\ ticket_sequence' = IF raises THEN ticket_sequence ELSE ticket_sequence + 1
        /\ ticket_message_sequence' =
             IF raises THEN ticket_message_sequence ELSE ticket_message_sequence + 1
        /\ UNCHANGED <<RunVars, posts, post_sequence, invoices, settings, ServiceVars, now,
                       BotVars, handle>>
        /\ disk' = IF raises THEN disk ELSE Persist'

\* add_ticket_message(ticket_id, sender, message)
AddTicketMessage(tid, sender, message) ==
    LET raises == message = "" \/ sender \notin {"user", "admin"}
                    \/ tid \notin DOMAIN tickets
    IN  /\ raises \/ ticket_message_sequence <= MaxMessages
        /\ tickets' = IF raises THEN tickets
                      ELSE [tickets EXCEPT ![tid] = AddMessage(@,
                              NewTicketMessage(ticket_message_sequence, sender, message))]
        /\ ticket_message_sequence' =
             IF raises THEN ticket_message_sequence ELSE ticket_message_sequence + 1
        /\ UNCHANGED <<RunVars, StorageVars, ServiceVars, now, BotVars, ticket_sequence, handle>>
        /\ disk' = IF raises THEN disk ELSE Persist'

\* close_ticket / reopen_ticket(ticket_id, actor_user_id=actor), 0 for None:
\* the error the call raises, "none" when it returns.
SetTicketStatusRaises(ts, tid, actor) ==
    IF tid \notin DOMAIN ts THEN "ValueError"
    ELSE IF actor # 0 /\ ts[tid].user_id # actor THEN "PermissionError"
    ELSE "none"

\* close_ticket / reopen_ticket without the test of the actor (lines 271-272).
SetTicketStatusTicketsNoOwnerTest(ts, tid, actor, status) ==
    IF tid \notin DOMAIN ts THEN ts
    ELSE [ts EXCEPT ![tid] = [@ EXCEPT !.status = status, !.updated_at = now]]

\* The stored tickets afterwards: the ticket read from the storage gets the
\* status and updated_at = utcnow() and is saved.
SetTicketStatusTickets(ts, tid, actor, status) ==
    IF SetTicketStatusRaises(ts, tid, actor) # "none" THEN ts
    ELSE [ts EXCEPT ![tid] = [@ EXCEPT !.status = status, !.updated_at = now]]

SetTicketStatus(tid, actor, status) ==
    /\ tickets' = SetTicketStatusTickets(tickets, tid, actor, status)
    /\ UNCHANGED <<RunVars, StorageVars, ServiceVars, now, BotVars, ticket_sequence,
                   ticket_message_sequence, handle>>
    /\ disk' = IF SetTicketStatusRaises(tickets, tid, actor) # "none"
               THEN disk ELSE Persist'

CloseTicket(tid, actor) == SetTicketStatus(tid, actor, "closed")

ReopenTicket(tid, actor) == SetTicketStatus(tid, actor, "open")

\* A storage on disk used by callers that construct, read, change and save
\* users, posts, invoices and settings, and by users who write to the
\* support, across restarts.
NextJson ==
    \/ \E kind \in EntityKinds : \E value \in Constructed(kind) : NewHandle(kind, value)
    \/ \E kind \in EntityKinds \ {"ticket"} :
         \E key \in StoredKeys(kind) : JsonStorageGet(kind, key)
    \/ \E value \in Assignable(handle) : MutateHandle(value)
    \/ JsonStorageSave
    \/ OpenTicket(1, "hi")
    \/ \E t \in 1..MaxTickets : AddTicketMessage(t, "admin", "re")
    \/ ReopenStorage

SpecJson == Init /\ [][NextJson]_vars

\* One storage and a caller that reads entities of every kind, tickets
\* included, changes what it holds and saves it.
NextStore ==
    \/ \E kind \in EntityKinds : \E value \in Constructed(kind) : NewHandle(kind, value)
    \/ \E kind \in EntityKinds : \E key \in StoredKeys(kind) : JsonStorageGet(kind, key)
    \/ \E value \in Assignable(handle) : MutateHandle(value)
    \/ JsonStorageSave
    \/ OpenTicket(1, "hi")

SpecStore == Init /\ [][NextStore]_vars

\* The support desk over time: tickets opened, answered, closed and reopened,
\* and the bot restarted in between.
NextSupport ==
    \/ \E u \in UserIds, t \in TicketTexts : OpenTicket(u, t)
    \/ \E t \in 1..MaxTickets, s \in Senders, m \in {"", "re"} : AddTicketMessage(t, s, m)
    \/ \E t \in 1..MaxTickets, a \in {0} \cup UserIds : CloseTicket(t, a)
    \/ \E t \in 1..MaxTickets, a \in {0} \cup UserIds : ReopenTicket(t, a)
    \/ ReopenStorage
    \/ Tick

SpecSupport == Init /\ [][NextSupport]_vars

\* Invoices are recorded and marked paid, possibly again at a later time.
NextPaid ==
    \/ \E u \in UserIds : RegisterUser(u, TRUE, NoProfile)
    \/ \E i \in InvoiceIds, u \in UserIds, k \in InvoiceKinds :
         CreateInvoice(i, u, k.type, k.quantity)
    \/ \E i \in InvoiceIds : MarkInvoicePaid(i)
    \/ Tick

SpecPaid == Init /\ [][NextPaid]_vars

\* Confirmation of payments: invoices are recorded, paid at the gateway or
\* not, and checked by their owners, the gateway answering or failing.
NextConfirm ==
    \/ \E u \in UserIds : RegisterUser(u, TRUE, NoProfile)
    \/ \E i \in InvoiceIds, u \in UserIds, k \in InvoiceKinds :
         CreateInvoice(i, u, k.type, k.quantity)
    \/ \E i \in InvoiceIds : GatewayPay(i)
    \/ \E k \in CheckIds, i \in InvoiceIds, u \in UserIds :
         InvoiceCheckStart(k, i, u, NoProfile)
    \/ \E k \in CheckIds, r \in GatewayReplies : InvoiceCheckReply(k, r)

SpecConfirm == Init /\ [][NextConfirm]_vars

\* Prices: the administrator changes the post cost and the energy price, with
\* values that are not positive among them, and pauses the autoposter; users
\* register and pay for posts; the service is constructed anew.
NextSettings ==
    \/ \E u \in UserIds : RegisterUser(u, TRUE, NoProfile)
    \/ \E u \in UserIds : SubmitPost(u, TextHello)
    \/ \E c \in Costs \cup {-1} : UpdatePostPrice(c)
    \/ \E p \in Prices \cup {-1} : UpdateEnergyPrice(p)
    \/ \E paused \in BOOLEAN : SetAutopostPaused(paused)
    \/ \E c \in Costs \cup {-1} : ConstructService(c)

SpecSettings == Init /\ [][NextSettings]_vars

\* WordFilter.is_allowed(filter_text) is called.
IsAllowedCall ==
    /\ filter_result = "none"
    /\ filter_result' = IF IsAllowed(filter_text) THEN "allowed" ELSE "rejected"
    /\ UNCHANGED <<StorageVars, ServiceVars, now, BotVars, SupportVars,
                   OutsideVars, job, inflight, serial, filter_text, AuditVars, boot>>

NextFilter == IsAllowedCall

SpecFilter == InitFilter /\ [][NextFilter]_vars

-----------------------------------------------------------------------------
(* Service calls of handlers that are running at once.  A call is taken in   *)
(* two steps, its read of the user (get_user returns a copy) and its         *)
(* save_user of the changed copy, so that a call of another handler between  *)
(* the two would be seen.                                                    *)

\* A service call that hands the event loop to other handlers between its
\* read and its save.
ServiceCallYieldsAlways == TRUE

\* Whether a service call can be suspended between its read and its save: the
\* methods of ChannelEconomyService and of the storage are plain `def`
\* functions without await, called from coroutines of one event loop, and the
\* program starts no thread, so a call runs to its end once begun.
ServiceCallYields == FALSE

ServiceOps == {"credit_energy", "submit_post", "purchase_golden_card_with_energy"}

\* The users a call of op for uid leaves when it starts from the users us:
\* credit_energy(uid, 50), submit_post(uid, "hi"),
\* purchase_golden_card_with_energy(uid, 1 hour).
CallUsers(op, us, uid) ==
    CASE op = "credit_energy" -> CreditEnergyUsers(us, uid, 50)
      [] op = "submit_post" -> SubmitPostUsers(us, uid, TextHello)
      [] op = "purchase_golden_card_with_energy" ->
             PurchaseGoldenCardWithEnergyUsers(us, uid, 1)

\* Handler c begins the call: _get_or_create_user stores a new user if there
\* was none and returns a copy of the stored one.
ServiceCallBegin(c, op, uid) ==
    /\ inflight[c].pc = "idle"
    /\ ServiceCallYields \/ \A d \in InvocationIds : inflight[d].pc = "idle"
    /\ users' = GetOrCreateUser(users, uid, NoProfile)
    /\ serial' = GetOrCreateUser(serial, uid, NoProfile)
    /\ inflight' = [inflight EXCEPT ![c] =
                      [pc |-> "read", op |-> op, user_id |-> uid,
                       user |-> users'[uid]]]
    /\ UNCHANGED <<posts, post_sequence, invoices, settings, ServiceVars, now,
                   BotVars, SupportVars, OutsideVars, job, filter_text,
                   filter_result, AuditVars, boot>>

\* Handler c's call changes its copy of the user and saves it (submit_post
\* also adds its post); `serial` takes the same call as a whole.
ServiceCallEnd(c) ==
    LET op == inflight[c].op
        uid == inflight[c].user_id
        mine == [users EXCEPT ![uid] = inflight[c].user]
        \* a call that raises does so before its save_user and leaves its copy
        saves == CallUsers(op, mine, uid) # mine
        posted == op = "submit_post" /\ ~SubmitPostRaises(mine, uid, TextHello)
    IN  /\ inflight[c].pc = "read"
        /\ EnergyWithin(CallUsers(op, mine, uid))
        /\ CardsWithin(CallUsers(op, mine, uid))
        /\ posted => post_sequence <= MaxPosts
        /\ users' = IF saves
                    THEN [users EXCEPT ![uid] = CallUsers(op, mine, uid)[uid]]
                    ELSE users
        /\ posts' = IF posted
                    THEN SubmitPostPosts(mine, posts, post_sequence, uid, TextHello)
                    ELSE posts
        /\ post_sequence' = IF posted THEN post_sequence + 1 ELSE post_sequence
        /\ serial' = CallUsers(op, serial, uid)
        /\ inflight' = [inflight EXCEPT ![c] = IdleCall]
        /\ UNCHANGED <<invoices, settings, ServiceVars, now,
                       BotVars, SupportVars, OutsideVars, job, filter_text,
                       filter_result, AuditVars, boot>>

\* Handlers call the service for the same or for different users.
NextCalls ==
    \/ \E c \in InvocationIds, op \in ServiceOps, u \in UserIds :
         ServiceCallBegin(c, op, u)
    \/ \E c \in InvocationIds : ServiceCallEnd(c)

SpecCalls == Init /\ [][NextCalls]_vars

-----------------------------------------------------------------------------
(* bot.py: autopost_job, split at its awaits of the Telegram API.  The job  *)
(* queue runs one autopost_job at a time; TELEGRAM_CHANNEL_ID is configured. *)

\* Lines 2110-2129: return when the autoposter is paused or no post is
\* reserved; when no channel is configured (TELEGRAM_CHANNEL_ID is None) pause
\* the autoposter and give the post back; else go on to send the post.
AutopostStart(channel) ==
    /\ job.pc = "idle"
    /\ IF settings.autopost_paused \/ ReserveResult(posts, users).ret = 0
       THEN /\ posts' = IF settings.autopost_paused THEN posts
                        ELSE ReserveResult(posts, users).posts
            /\ UNCHANGED <<settings, job>>
       ELSE IF ~channel
       THEN /\ settings' = [settings EXCEPT !.autopost_paused = TRUE]
            /\ posts' = MarkPostFailedPosts(ReserveResult(posts, users).posts,
                                           ReserveResult(posts, users).ret)
            /\ UNCHANGED job
       ELSE /\ posts' = ReserveResult(posts, users).posts
            /\ job' = [pc |-> "sending",
                       post_id |-> ReserveResult(posts, users).ret]
            /\ UNCHANGED settings
    /\ UNCHANGED <<users, post_sequence, invoices, ServiceVars, now,
                   BotVars, SupportVars, OutsideVars,
                   inflight, serial, filter_text, filter_result, AuditVars, boot>>

\* Lines 2136-2185: the awaited sends have returned; mark_post_published.
AutopostSent(msg) ==
    /\ job.pc = "sending"
    /\ posts' = MarkPostPublishedPosts(posts, job.post_id, msg)
    /\ job' = IdleJob
    /\ UNCHANGED <<users, post_sequence, invoices, settings, ServiceVars, now,
                   BotVars, SupportVars, OutsideVars,
                   inflight, serial, filter_text, filter_result, AuditVars, boot>>

\* Lines 2186-2188: an awaited send has raised; mark_post_failed.
AutopostFailed ==
    /\ job.pc = "sending"
    /\ posts' = MarkPostFailedPosts(posts, job.post_id)
    /\ job' = IdleJob
    /\ UNCHANGED <<users, post_sequence, invoices, settings, ServiceVars, now,
                   BotVars, SupportVars, OutsideVars,
                   inflight, serial, filter_text, filter_result, AuditVars, boot>>

\* The autoposter at work on a queue of posts while an administrator clears
\* users' posts, approves posts and pauses the autoposter.
NextAutopost ==
    \/ AutopostStart(TRUE)
    \/ \E m \in MessageIds : AutopostSent(m)
    \/ AutopostFailed
    \/ \E u \in UserIds : CancelPostsForUser(u)
    \/ \E p \in 1..MaxQueue : ApprovePost(p)
    \/ \E paused \in BOOLEAN : SetAutopostPaused(paused)

SpecAutopost == InitReserve /\ [][NextAutopost]_vars

\* A queue of posts created at the same time by authors none of whom is
\* banned.
InitQueue ==
    /\ InitReserve
    /\ \A p \in DOMAIN posts : posts[p].created_at = now
    /\ \A u \in UserIds : ~users[u].is_banned

\* The autoposter, with or without a channel configured, and an administrator
\* who approves posts, clears users' posts and resumes the autoposter.
NextCancel ==
    \/ \E ch \in BOOLEAN : AutopostStart(ch)
    \/ \E m \in MessageIds : AutopostSent(m)
    \/ AutopostFailed
    \/ \E u \in UserIds : CancelPostsForUser(u)
    \/ \E p \in 1..MaxQueue : ApprovePost(p)
    \/ SetAutopostPaused(FALSE)

SpecCancel == InitQueue /\ [][NextCancel]_vars

\* Every awaited call of the Telegram API returns or raises in the end, so a
\* job that is sending reaches its mark_post_published or mark_post_failed.
SpecCancelFair ==
    SpecCancel /\ WF_vars(AutopostFailed \/ \E m \in MessageIds : AutopostSent(m))

\* The autoposter left to itself, never paused and with a channel, while an
\* administrator approves the posts that wait for moderation.
NextRepeat ==
    \/ AutopostStart(TRUE)
    \/ \E m \in MessageIds : AutopostSent(m)
    \/ AutopostFailed
    \/ \E p \in DOMAIN posts : posts[p].status = "pending" /\ ApprovePost(p)

\* The job queue starts autopost_job again and again, and every run ends, be
\* it with a publication or with a failure.
SpecRepeat ==
    /\ InitQueue /\ [][NextRepeat]_vars
    /\ WF_vars(AutopostStart(TRUE))
    /\ WF_vars(AutopostFailed \/ \E m \in MessageIds : AutopostSent(m))

\* Posts with and without a golden card through moderation and publication;
\* user 2 is given golden cards and user 1 may be banned.
NextPosts ==
    \/ \E u \in UserIds : RegisterUser(u, TRUE, NoProfile)
    \/ GrantGoldenCard(2, 1)
    \/ \E u \in UserIds : SubmitPost(u, TextHello)
    \/ SetUserBanned(1, TRUE)
    \/ \E p \in PostIds : ApprovePost(p)
    \/ \E p \in PostIds : RejectPost(p)
    \/ ReserveNextPost
    \/ \E p \in PostIds, m \in MessageIds : MarkPostPublished(p, m)
    \/ \E p \in PostIds : MarkPostFailed(p)
    \/ \E u \in UserIds : CancelPostsForUser(u)

SpecPosts == Init /\ [][NextPosts]_vars

-----------------------------------------------------------------------------
(* Properties *)

\* C1: in every state reachable by any sequence of service operations, every
\* stored user's energy is at least 0.
EnergyNonNegative ==
    \A u \in UserIds : UserExists(users, u) => users[u].energy >= 0

\* A user who has paid for a post and is left with less than the next post costs:
\* the next spend is refused rather than overdrawn.
EnergyNonNegativeWitness ==
    \E u \in UserIds :
        /\ UserExists(users, u)
        /\ users[u].energy < post_energy_cost
        /\ \E p \in DOMAIN posts : posts[p].user_id = u

\* C2: a submit_post call that fails (author banned, text refused by the word
\* filter, or energy below the current post cost) creates no post and leaves the
\* author's energy and golden cards as they were; an author unknown before the
\* call is stored with no energy and no cards.
FailedSubmitChangesNothing ==
    \A u \in UserIds, t \in Texts :
        SubmitPostRaises(users, u, t) =>
            /\ SubmitPostPosts(users, posts, post_sequence, u, t) = posts
            /\ LET after == SubmitPostUsers(users, u, t)[u]
               IN  IF UserExists(users, u)
                   THEN /\ after.energy = users[u].energy
                        /\ after.golden_cards = users[u].golden_cards
                   ELSE after.energy = 0 /\ after.golden_cards = <<>>

\* Two failing calls with something to lose: one author with energy for a post
\* and an active golden card who writes a banned word, another with a golden
\* card whose energy is short of the post cost.
FailedSubmitWitness ==
    /\ \E u \in UserIds :
           /\ UserExists(users, u) /\ ~users[u].is_banned
           /\ users[u].energy >= post_energy_cost /\ ActiveCardIndex(users[u]) # 0
           /\ SubmitPostRaises(users, u, TextBanned)
    /\ \E u \in UserIds :
           /\ UserExists(users, u) /\ ~users[u].is_banned
           /\ users[u].energy > 0 /\ users[u].energy < post_energy_cost
           /\ ActiveCardIndex(users[u]) # 0
           /\ SubmitPostRaises(users, u, TextHello)

\* C3: a post becomes published only from publishing, and publishing only from
\* approved; no operation takes a post from pending straight to published.
PublishedOnlyViaPublishing ==
    [][\A p \in DOMAIN posts :
          /\ (posts'[p].status = "published" /\ posts[p].status # "published")
                 => posts[p].status = "publishing"
          /\ (posts'[p].status = "publishing" /\ posts[p].status # "publishing")
                 => posts[p].status = "approved"]_vars

TerminalStatuses == {"published", "rejected", "cancelled"}

\* C4: published, rejected and cancelled are terminal: once a post has one of
\* these statuses no operation changes its status again.
TerminalStatusesStay ==
    [][\A p \in DOMAIN posts :
          posts[p].status \in TerminalStatuses => posts'[p].status = posts[p].status]_vars

EnergyOf(us, uid) == IF UserExists(us, uid) THEN us[uid].energy ELSE 0

\* C5: reject_post on an existing post that is not rejected sets its status to
\* rejected and adds exactly post_energy_cost to the author's energy; a second
\* reject_post on that post changes neither the posts nor the users.
RejectRefundsOnce ==
    \A p \in DOMAIN posts :
        posts[p].status # "rejected" =>
            LET author == posts[p].user_id
                ps1 == RejectPostPosts(posts, p)
                us1 == RejectPostUsers(users, posts, p)
            IN  /\ ps1 = [posts EXCEPT ![p].status = "rejected"]
                /\ us1[author].energy = EnergyOf(users, author) + post_energy_cost
                /\ \A u \in UserIds \ {author} : us1[u] = users[u]
                /\ RejectPostPosts(ps1, p) = ps1
                /\ RejectPostUsers(us1, ps1, p) = us1

\* A rejected post whose author, charged the default cost, has the registration
\* energy back.
RejectRefundsOnceWitness ==
    \E p \in DOMAIN posts :
        /\ posts[p].status = "rejected"
        /\ post_energy_cost = DefaultPostEnergyCost
        /\ users[posts[p].user_id].energy = DEFAULT_REGISTRATION_ENERGY

\* How often post p was handed to a caller of reserve_next_post.
TimesHanded(p) ==
    Cardinality({ ci \in CallerIds \X (1..MaxCalls) :
                    ci[2] <= Len(callers[ci[1]]) /\ callers[ci[1]][ci[2]] = p })

\* C6: over a queue of approved posts and any order of calls of
\* reserve_next_post by several callers, every post is handed out at most once,
\* and exactly the posts handed out have become publishing.
ReservedAtMostOnce ==
    \A p \in DOMAIN posts :
        /\ TimesHanded(p) <= 1
        /\ TimesHanded(p) = 1 <=> posts[p].status = "publishing"

\* Two callers each hold a post, and a third call has come back empty.
ReservedAtMostOnceWitness ==
    /\ \E c1, c2 \in CallerIds :
          /\ c1 # c2
          /\ \E i \in 1..Len(callers[c1]) : callers[c1][i] # 0
          /\ \E j \in 1..Len(callers[c2]) : callers[c2][j] # 0
    /\ \E c \in CallerIds : \E k \in 1..Len(callers[c]) : callers[c][k] = 0

PaidImpliesFulfilled ==
    \A i \in InvoiceIds :
        (InvoiceExists(invoices, i) /\ invoices[i].status = "paid") => fulfilled[i] >= 1

\* C9: award_referral(a, b) is idempotent: a second call leaves what the first
\* left, and a first call that does not raise leaves b among a's referred users
\* with DEFAULT_REFERRAL_ENERGY credited to a if b was not there before, and
\* nothing credited if it was.
AwardReferralIdempotent ==
    \A a, b \in UserIds :
        LET once  == AwardReferralUsers(users, a, b)
            twice == AwardReferralUsers(once, a, b)
            known == UserExists(users, a) /\ b \in users[a].referred_users
        IN  /\ twice = once
            /\ ~AwardReferralRaises(users, a, b) =>
                  /\ b \in twice[a].referred_users
                  /\ twice[a].energy = EnergyOf(users, a)
                        + (IF known THEN 0 ELSE DEFAULT_REFERRAL_ENERGY)

\* A referrer who is not banned and already has the other user among the
\* referred: the repeated call is the one that must credit nothing.
AwardReferralIdempotentWitness ==
    \E a, b \in UserIds :
        /\ a # b /\ UserExists(users, a) /\ ~users[a].is_banned
        /\ b \in users[a].referred_users
        /\ users[a].energy = DEFAULT_REFERRAL_ENERGY

\* C10: register_user with subscribed = FALSE raises and changes nothing;
\* with subscribed = TRUE it does not raise, an absent user is created with
\* exactly DEFAULT_REGISTRATION_ENERGY and an existing user's energy stays.
RegisterUserContract ==
    \A u \in UserIds, pr \in Profiles :
        /\ RegisterUserRaises(users, u, FALSE, pr)
        /\ RegisterUserUsers(users, u, FALSE, pr) = users
        /\ ~RegisterUserRaises(users, u, TRUE, pr)
        /\ LET after == RegisterUserUsers(users, u, TRUE, pr)
           IN  /\ UserExists(after, u)
               /\ after[u].energy = IF UserExists(users, u) THEN users[u].energy
                                    ELSE DEFAULT_REGISTRATION_ENERGY
               /\ \A v \in UserIds \ {u} : after[v] = users[v]

\* A registered user whose profile a later register_user filled in and whose
\* energy is no longer the registration energy, next to a user still absent.
RegisterUserContractWitness ==
    /\ \E u \in UserIds :
           /\ UserExists(users, u) /\ users[u].username = "alice"
           /\ users[u].energy # DEFAULT_REGISTRATION_ENERGY
    /\ \E u \in UserIds : ~UserExists(users, u)

\* C11: a successful submit_post by a user with energy e at post cost c leaves
\* the user with exactly e - c and every other user as before, and adds exactly
\* one post, pending, under an id no post had, leaving the other posts as they
\* were; requires_pin is false when the user held no unexpired golden card.
SubmitPostEffect ==
    \A u \in UserIds, t \in Texts :
        ~SubmitPostRaises(users, u, t) =>
            LET us1 == SubmitPostUsers(users, u, t)
                ps1 == SubmitPostPosts(users, posts, post_sequence, u, t)
                held == users[u].golden_cards
            IN  /\ us1[u].energy = users[u].energy - post_energy_cost
                /\ \A v \in UserIds \ {u} : us1[v] = users[v]
                /\ post_sequence \notin DOMAIN posts
                /\ DOMAIN ps1 = DOMAIN posts \cup {post_sequence}
                /\ \A p \in DOMAIN posts : ps1[p] = posts[p]
                /\ ps1[post_sequence].status = "pending"
                /\ ps1[post_sequence].user_id = u
                /\ ps1[post_sequence].text = t
                /\ (\A i \in 1..Len(held) : ExpiresAt(held[i]) <= now)
                      => ~ps1[post_sequence].requires_pin

\* A pending post without a pin, submitted at a raised post cost by an author
\* who is left with the registration energy less that cost.
SubmitPostEffectWitness ==
    \E p \in DOMAIN posts :
        /\ posts[p].status = "pending" /\ ~posts[p].requires_pin
        /\ post_energy_cost > DefaultPostEnergyCost
        /\ users[posts[p].user_id].energy = DEFAULT_REGISTRATION_ENERGY - post_energy_cost

\* C12: when the submitting user holds an unexpired golden card, a successful
\* submit_post creates a post with requires_pin true and removes exactly the
\* first unexpired card in list order; every other card, expired or not, stays
\* in its original order.
SubmitPostPopsFirstActiveCard ==
    \A u \in UserIds, t \in Texts :
        ~SubmitPostRaises(users, u, t) =>
            LET held  == users[u].golden_cards
                after == SubmitPostUsers(users, u, t)[u].golden_cards
                post  == SubmitPostPosts(users, posts, post_sequence, u, t)[post_sequence]
            IN  \A k \in 1..Len(held) :
                    (/\ ExpiresAt(held[k]) > now
                     /\ \A j \in 1..(k - 1) : ExpiresAt(held[j]) <= now)
                    => /\ post.requires_pin
                       /\ Len(after) = Len(held) - 1
                       /\ \A i \in 1..Len(after) :
                              after[i] = IF i < k THEN held[i] ELSE held[i + 1]

\* A post pinned just now whose author still holds, at the head of the list,
\* a card that had expired before: the card taken stood behind it.
SubmitPostPopsFirstActiveCardWitness ==
    \E p \in DOMAIN posts :
        LET held == users[posts[p].user_id].golden_cards
        IN  /\ posts[p].requires_pin
            /\ posts[p].created_at = now
            /\ held # <<>>
            /\ ExpiresAt(held[1]) <= now

\* Post p was created before post q (posts of one instant are in id order).
CreatedEarlier(p, q) ==
    \/ posts[p].created_at < posts[q].created_at
    \/ posts[p].created_at = posts[q].created_at /\ p < q

\* The author of post p is stored and banned.
BannedAuthor(p) ==
    users[posts[p].user_id] # NoUser /\ users[posts[p].user_id].is_banned

\* C13: reserve_next_post returns the earliest-created approved post whose
\* author is not banned and marks exactly that post publishing; it cancels every
\* approved post of a banned author created before it (all of them, returning
\* none, when no post is eligible) and leaves every other post unchanged.
ReserveSkipsBanned ==
    LET r        == ReserveResult(posts, users)
        approved == { p \in DOMAIN posts : posts[p].status = "approved" }
        eligible == { p \in approved : ~BannedAuthor(p) }
    IN  /\ DOMAIN r.posts = DOMAIN posts
        /\ IF eligible = {}
           THEN /\ r.ret = 0
                /\ \A p \in DOMAIN posts :
                      r.posts[p] = IF p \in approved
                                   THEN [posts[p] EXCEPT !.status = "cancelled"]
                                   ELSE posts[p]
           ELSE /\ r.ret \in eligible
                /\ \A q \in eligible \ {r.ret} : CreatedEarlier(r.ret, q)
                /\ \A p \in DOMAIN posts :
                      r.posts[p] =
                          IF p = r.ret THEN [posts[p] EXCEPT !.status = "publishing"]
                          ELSE IF p \in approved /\ BannedAuthor(p)
                                  /\ CreatedEarlier(p, r.ret)
                          THEN [posts[p] EXCEPT !.status = "cancelled"]
                          ELSE posts[p]

\* A caller holds a post that was created after a post of a banned author,
\* which the same scan cancelled.
ReserveSkipsBannedWitness ==
    \E p, q \in DOMAIN posts :
        /\ CreatedEarlier(p, q)
        /\ posts[p].status = "cancelled" /\ BannedAuthor(p)
        /\ posts[q].status = "publishing" /\ ~BannedAuthor(q)
        /\ TimesHanded(q) = 1

\* The user is stored and banned.
IsBanned(u) == users[u] # NoUser /\ users[u].is_banned

\* C14: purchase_energy and credit_energy add exactly the requested amount to
\* a non-banned user's energy; they raise, leaving the energy as it was, when the
\* user is banned; credit_energy also raises on an amount <= 0, and
\* purchase_energy on a negative one.  No other user is touched.
EnergyPurchaseContract ==
    \A u \in UserIds, a \in Amounts :
        LET bought   == PurchaseEnergyUsers(users, u, a)
            credited == CreditEnergyUsers(users, u, a)
        IN  /\ PurchaseEnergyRaises(users, u, a) <=> (IsBanned(u) \/ a < 0)
            /\ CreditEnergyRaises(users, u, a) <=> (IsBanned(u) \/ a <= 0)
            /\ EnergyOf(bought, u) = EnergyOf(users, u)
                  + (IF IsBanned(u) \/ a < 0 THEN 0 ELSE a)
            /\ EnergyOf(credited, u) = EnergyOf(users, u)
                  + (IF IsBanned(u) \/ a <= 0 THEN 0 ELSE a)
            /\ \A v \in UserIds \ {u} : bought[v] = users[v] /\ credited[v] = users[v]

\* A banned user with energy to keep, beside a user who is not banned and
\* holds exactly one top-up.
EnergyPurchaseContractWitness ==
    /\ \E u \in UserIds : IsBanned(u) /\ users[u].energy > 0
    /\ \E u \in UserIds :
          /\ users[u] # NoUser /\ ~users[u].is_banned
          /\ users[u].referred_users = {}
          /\ users[u].energy \in Amounts /\ users[u].energy > 0

CardsOf(us, uid) == IF UserExists(us, uid) THEN us[uid].golden_cards ELSE <<>>

\* C15: purchase_golden_card_with_energy(u, d) with d > 0, by a user who is not
\* banned and has at least energy_cost_for_golden_card(d), takes exactly that
\* cost and appends exactly one golden card of duration d; it raises otherwise.
\* grant_golden_card and purchase_golden_card raise exactly when d <= 0 or the
\* user is banned, and else append one card of duration d at no energy.  A
\* call that raises leaves the user's energy and golden cards as they were.
GoldenCardContract ==
    \A u \in UserIds, d \in Durations :
        LET card    == [duration |-> d, purchased_at |-> now]
            paid    == PurchaseGoldenCardWithEnergyUsers(users, u, d)
            granted == GrantGoldenCardUsers(users, u, d)
            afford  == /\ d > 0 /\ pricing.num > 0 /\ ~IsBanned(u)
                       /\ EnergyOf(users, u) >= EnergyCostForGoldenCard(d)
            free    == d > 0 /\ ~IsBanned(u)
        IN  /\ PurchaseGoldenCardWithEnergyRaises(users, u, d) <=> ~afford
            /\ GrantGoldenCardRaises(users, u, d) <=> ~free
            /\ IF afford
               THEN /\ paid[u].energy = users[u].energy - EnergyCostForGoldenCard(d)
                    /\ paid[u].golden_cards = Append(users[u].golden_cards, card)
               ELSE /\ EnergyOf(paid, u) = EnergyOf(users, u)
                    /\ CardsOf(paid, u) = CardsOf(users, u)
            /\ EnergyOf(granted, u) = EnergyOf(users, u)
            /\ CardsOf(granted, u) = IF free THEN Append(CardsOf(users, u), card)
                                      ELSE CardsOf(users, u)
            /\ \A v \in UserIds \ {u} : paid[v] = users[v] /\ granted[v] = users[v]

\* A user who paid the energy cost of a card at a changed unit price and holds
\* the card, beside a banned user with enough energy for one.
GoldenCardContractWitness ==
    /\ \E u \in UserIds :
          /\ users[u] # NoUser /\ users[u].golden_cards # <<>>
          /\ settings.energy_price_per_unit # DefaultEnergyPricePerUnit
          /\ users[u].energy = DEFAULT_REGISTRATION_ENERGY - EnergyCostForGoldenCard(1)
    /\ \E u \in UserIds :
          IsBanned(u) /\ users[u].energy >= EnergyCostForGoldenCard(1)

\* C16: approve_post on an existing post sets its status to cancelled and
\* returns none when the author is banned, and else sets it to approved and
\* returns the post; on a missing post it returns none and changes nothing.  No
\* other post changes, and no post of a banned author comes out approved unless
\* it was approved before.
ApprovePostContract ==
    \A pid \in PostIds :
        LET after == ApprovePostPosts(users, posts, pid)
            ret   == ApprovePostReturns(users, posts, pid)
        IN  IF pid \notin DOMAIN posts
            THEN after = posts /\ ret = 0
            ELSE /\ after = [posts EXCEPT ![pid].status =
                                IF BannedAuthor(pid) THEN "cancelled" ELSE "approved"]
                 /\ ret = IF BannedAuthor(pid) THEN 0 ELSE pid

\* A post cancelled while its author is banned, the author charged for it.
ApprovePostContractWitness ==
    \E p \in DOMAIN posts :
        /\ posts[p].status = "cancelled" /\ BannedAuthor(p)
        /\ users[posts[p].user_id].energy < DEFAULT_REGISTRATION_ENERGY

CallerMutates == \E value \in Assignable(handle) : MutateHandle(value)

ReadsUnchangedByCaller ==
    [][CallerMutates => UNCHANGED <<users, posts, invoices, settings, tickets>>]_vars

\* The caller holds an entity that the storage holds too, got from a read or
\* passed to a save, and has changed it since: the stored one differs.
ReadsUnchangedByCallerWitness ==
    /\ handle.kind \in {"user", "ticket"}
    /\ handle.key \in StoredKeys(handle.kind)
    /\ handle.value # Stored(handle.kind, handle.key)

\* C19: after any sequence of mutating JsonStorage calls, a JsonStorage opened
\* anew on the file holds the users, posts, invoices, settings and id
\* counters that the running storage holds in memory.
ReloadEqualsMemory ==
    \A fresh \in {Load(disk)} :
        /\ fresh.users = users
        /\ fresh.posts = posts
        /\ fresh.invoices = invoices
        /\ fresh.settings = settings
        /\ fresh.post_sequence = post_sequence
        /\ fresh.ticket_sequence = ticket_sequence
        /\ fresh.ticket_message_sequence = ticket_message_sequence

\* A file written with a user holding a golden card and referrals, a
\* published post, a paid invoice, changed settings and an answered ticket.
ReloadEqualsMemoryWitness ==
    /\ disk # NoFile
    /\ UserExists(users, 1) /\ users[1].golden_cards # <<>>
    /\ users[1].referred_users = UserIds
    /\ \E p \in DOMAIN posts : posts[p].status = "published"
    /\ InvoiceExists(invoices, 1) /\ invoices[1].status = "paid"
    /\ settings.autopost_paused
    /\ \E t \in DOMAIN tickets : Len(tickets[t].messages) = 2

\* C20: serializing and then deserializing a stored user, post, invoice or
\* ticket gives back an entity equal in all fields; for a ticket the status,
\* subject, updated_at and the order of the messages survive, also when the
\* ticket was closed or reopened after its last message.
RoundTripEqual ==
    /\ \A u \in UserIds :
         UserExists(users, u) => DeserializeUser(SerializeUser(users[u])) = users[u]
    /\ \A p \in DOMAIN posts : DeserializePost(SerializePost(posts[p])) = posts[p]
    /\ \A i \in InvoiceIds :
         InvoiceExists(invoices, i) =>
           DeserializeInvoice(SerializeInvoice(invoices[i])) = invoices[i]
    /\ \A t \in DOMAIN tickets :
         DeserializeTicket(SerializeTicket(tickets[t])) = tickets[t]

\* C21: in every reachable state every ticket's updated_at equals the
\* created_at of its most recently appended message, after any sequence of
\* open_ticket, add_ticket_message, close_ticket and reopen_ticket.
UpdatedAtIsLastMessage ==
    \A t \in DOMAIN tickets :
        tickets[t].updated_at =
            tickets[t].messages[Len(tickets[t].messages)].created_at

\* C22: close_ticket and reopen_ticket with an actor who is not the ticket's
\* owner raise a permission error and leave the tickets as they are; with the
\* owner or with no actor they set the status to closed / open and change no
\* other ticket; on a missing ticket they raise and create no ticket.
TicketStatusContract ==
    \A tid \in 1..(MaxTickets + 1), actor \in {0} \cup UserIds,
       status \in {"closed", "open"} :
        LET after  == SetTicketStatusTickets(tickets, tid, actor, status)
            raises == SetTicketStatusRaises(tickets, tid, actor)
        IN  IF tid \notin DOMAIN tickets
            THEN raises # "none" /\ after = tickets
            ELSE IF actor # 0 /\ actor # tickets[tid].user_id
            THEN raises = "PermissionError" /\ after = tickets
            ELSE /\ raises = "none"
                 /\ DOMAIN after = DOMAIN tickets
                 /\ after[tid].status = status
                 /\ after[tid].user_id = tickets[tid].user_id
                 /\ after[tid].messages = tickets[tid].messages
                 /\ \A t \in DOMAIN tickets \ {tid} : after[t] = tickets[t]

\* A ticket of user 2 (actor 1 is not its owner) that holds its first message
\* only and was set to open later than it was created.
TicketStatusContractWitness ==
    \E t \in DOMAIN tickets :
        /\ tickets[t].status = "open" /\ tickets[t].user_id = 2
        /\ Len(tickets[t].messages) = 1
        /\ tickets[t].updated_at > tickets[t].created_at

\* The message ids of all stored tickets.
MessageIdsOf(ts) ==
    UNION { { ts[t].messages[i].message_id : i \in 1..Len(ts[t].messages) } :
            t \in DOMAIN ts }

\* C23: a ticket that appears has the id the ticket counter held, a fresh one,
\* status open and exactly one message, from the user; a ticket's messages
\* change only by one message appended at the end, with an id above every
\* message id of any ticket so far, the status staying as it was; and
\* open_ticket with an empty message, or add_ticket_message with an empty
\* message or for an unknown ticket, creates no ticket and no message.
TicketMessagesContract ==
    [][/\ DOMAIN tickets \subseteq DOMAIN tickets'
       /\ \A t \in DOMAIN tickets' \ DOMAIN tickets :
            /\ t = ticket_sequence /\ ticket_sequence' > t
            /\ tickets'[t].status = "open"
            /\ Len(tickets'[t].messages) = 1
            /\ tickets'[t].messages[1].sender = "user"
            /\ \A m \in MessageIdsOf(tickets) : tickets'[t].messages[1].message_id > m
       /\ \A t \in DOMAIN tickets :
            \/ tickets'[t].messages = tickets[t].messages
            \/ /\ Len(tickets'[t].messages) = Len(tickets[t].messages) + 1
               /\ SubSeq(tickets'[t].messages, 1, Len(tickets[t].messages))
                    = tickets[t].messages
               /\ \A m \in MessageIdsOf(tickets) :
                    tickets'[t].messages[Len(tickets'[t].messages)].message_id > m
               /\ tickets'[t].status = tickets[t].status
               /\ \A o \in DOMAIN tickets \ {t} : tickets'[o] = tickets[o]
       /\ (\E u \in UserIds : OpenTicket(u, "")) => UNCHANGED SupportVars
       /\ (\E t \in 1..(MaxTickets + 1), s \in Senders, m \in TicketTexts :
             (m = "" \/ t \notin DOMAIN tickets) /\ AddTicketMessage(t, s, m))
            => UNCHANGED SupportVars]_vars

\* A closed ticket that holds an answer from the support after the user's
\* first message, the ticket counter having moved on.
TicketMessagesContractWitness ==
    /\ \E t \in DOMAIN tickets :
         /\ Len(tickets[t].messages) = 2
         /\ tickets[t].messages[2].sender = "admin"
         /\ tickets[t].status = "closed"
    /\ ticket_sequence > 1

\* C24: a mark_invoice_paid step on a stored invoice leaves it with status
\* paid and with the paid_at it had, or the current time if it had none, and
\* changes nothing else of it, no other invoice and no user; on a missing
\* invoice it changes nothing; and a paid_at once set never changes.
MarkInvoicePaidContract ==
    [][/\ \A i \in InvoiceIds : MarkInvoicePaid(i) =>
            /\ users' = users
            /\ \A o \in InvoiceIds \ {i} : invoices'[o] = invoices[o]
            /\ IF ~InvoiceExists(invoices, i) THEN invoices'[i] = invoices[i]
               ELSE /\ invoices'[i].status = "paid"
                    /\ invoices'[i].paid_at =
                         IF invoices[i].paid_at = NoTime THEN now
                         ELSE invoices[i].paid_at
                    /\ [invoices'[i] EXCEPT !.status = "", !.paid_at = NoTime]
                         = [invoices[i] EXCEPT !.status = "", !.paid_at = NoTime]
       /\ \A i \in InvoiceIds :
            (InvoiceExists(invoices, i) /\ invoices[i].paid_at # NoTime)
                => invoices'[i].paid_at = invoices[i].paid_at]_vars

\* An invoice marked paid at an earlier time than now, so that a further call
\* meets a paid_at that is set, while the other invoice id is still unused.
MarkInvoicePaidContractWitness ==
    \E i, o \in InvoiceIds :
        /\ InvoiceExists(invoices, i) /\ invoices[i].status = "paid"
        /\ invoices[i].paid_at # NoTime /\ invoices[i].paid_at < now
        /\ ~InvoiceExists(invoices, o)

\* C25: a confirmation check whose gateway call fails, or answers with a
\* status other than paid / completed, changes no stored invoice and no user
\* and applies no fulfilment; and an invoice's stored status turns into a paid
\* one only in a state in which the gateway holds the invoice as paid.
UnconfirmedStaysUnpaid ==
    [][/\ \A k \in CheckIds, r \in GatewayReplies \ {"paid", "completed"} :
            InvoiceCheckReply(k, r) =>
                UNCHANGED <<invoices, users, fulfilled>>
       /\ \A i \in InvoiceIds :
            (/\ InvoiceExists(invoices', i)
             /\ invoices'[i].status \in {"paid", "completed"}
             /\ ~(InvoiceExists(invoices, i)
                  /\ invoices[i].status \in {"paid", "completed"}))
                => remote[i] = "paid"]_vars

\* One invoice is stored as paid and fulfilled after the gateway's answer, the
\* other is paid at the gateway but still stored as active after a check of
\* it has ended, its fulfilment not applied.
UnconfirmedStaysUnpaidWitness ==
    \E i, o \in InvoiceIds :
        /\ InvoiceExists(invoices, i) /\ invoices[i].status = "paid"
        /\ fulfilled[i] = 1
        /\ InvoiceExists(invoices, o) /\ invoices[o].status = "active"
        /\ remote[o] = "paid" /\ fulfilled[o] = 0
        /\ \A k \in CheckIds : checks[k].pc = "idle"

\* C26: update_post_price with a cost <= 0 and update_energy_price with a
\* price <= 0 leave the stored settings and the service's post_energy_cost and
\* pricing unchanged, and the stored post_energy_cost and
\* energy_price_per_unit are > 0 before and after every step.
NonPositivePricesRefused ==
    [][/\ \A c \in Costs \cup {-1} : (c <= 0 /\ UpdatePostPrice(c)) =>
            UNCHANGED <<settings, post_energy_cost, pricing>>
       /\ \A p \in Prices \cup {-1} : (p <= 0 /\ UpdateEnergyPrice(p)) =>
            UNCHANGED <<settings, post_energy_cost, pricing>>
       /\ settings.post_energy_cost > 0 /\ settings'.post_energy_cost > 0
       /\ settings.energy_price_per_unit > 0
       /\ settings'.energy_price_per_unit > 0]_vars

\* Both prices were changed from their defaults by successful updates.
NonPositivePricesRefusedWitness ==
    /\ settings.post_energy_cost = 50
    /\ settings.energy_price_per_unit = 2

\* C27: in every state, after construction with any post_energy_cost argument
\* and after every operation, the service's post_energy_cost equals the
\* stored settings' post_energy_cost, and its unit price is the one derived
\* from the stored energy_price_per_unit.
ServiceFollowsSettings ==
    /\ post_energy_cost = settings.post_energy_cost
    /\ pricing = ConvertRubToUsd(settings.energy_price_per_unit)

\* The stored cost differs from the dataclass default and from every cost
\* handed to the constructor, and a post was paid with it.
ServiceFollowsSettingsWitness ==
    /\ settings.post_energy_cost = 50 /\ post_energy_cost = 50
    /\ settings.energy_price_per_unit = 2
    /\ \E u \in UserIds : UserExists(users, u) /\ users[u].energy = 50
    /\ Len(posts) = 1

\* text[i..j] is a whitespace-separated token of text: a maximal run of
\* characters that are not whitespace.
IsToken(text, i, j) ==
    /\ i <= j
    /\ \A k \in i..j : text[k] \notin Whitespace
    /\ i = 1 \/ text[i - 1] \in Whitespace
    /\ j = Len(text) \/ text[j + 1] \in Whitespace

\* text[a..b] is what is left of the token text[i..j] once the punctuation is
\* stripped from both ends (nothing when b = a - 1).
IsCore(text, i, j, a, b) ==
    /\ i <= a /\ a <= b + 1 /\ b <= j
    /\ \A k \in (i..(a - 1)) \cup ((b + 1)..j) : text[k] \in StripChars
    /\ a <= b => (text[a] \notin StripChars /\ text[b] \notin StripChars)
    /\ a = b + 1 => (a = i \/ b = j)

\* Some token of the text, stripped and lowercased, equals a banned word.
HasBannedToken(text) ==
    \E i, j \in 1..Len(text) : IsToken(text, i, j) /\
        \E a \in i..(j + 1), b \in (i - 1)..j :
            /\ IsCore(text, i, j, a, b)
            /\ Lower(SubSeq(text, a, b)) \in BannedWords

\* C28: is_allowed(text) is false exactly when some whitespace-separated token
\* of the text, with the punctuation stripped from both ends and lowercased,
\* equals a banned word; in particular a banned word that is only a proper
\* substring of a token does not cause the rejection.
ExactTokenMatch ==
    filter_result # "none" =>
        (filter_result = "rejected" <=> HasBannedToken(filter_text))

\* The banned word in capitals between punctuation was rejected.
ExactTokenMatchWitness ==
    /\ filter_text = <<"!", "B", "a", "d", "!">>
    /\ filter_result = "rejected"

\* C30: the post autopost_job has reserved and is sending, once cancelled by
\* cancel_posts_for_user, is still cancelled after the job's next step: the
\* job's final mark_post_published / mark_post_failed does not turn it into
\* published or approved.
CancelledWhileSendingStays ==
    [][\A p \in DOMAIN posts :
          (job.pc = "sending" /\ job.post_id = p /\ posts[p].status = "cancelled")
              => posts'[p].status = "cancelled"]_vars

CancelPostsContract ==
    [][\A u \in UserIds :
          LET mine == { p \in DOMAIN posts :
                          /\ posts[p].user_id = u
                          /\ posts[p].status \in {"pending", "approved", "publishing"} }
          IN  /\ CancelPostsForUserReturns(posts, u) = Cardinality(mine)
              /\ CancelPostsForUser(u) =>
                   /\ users' = users
                   /\ DOMAIN posts' = DOMAIN posts
                   /\ \A p \in mine : posts'[p] = [posts[p] EXCEPT !.status = "cancelled"]
                   /\ \A p \in DOMAIN posts \ mine : posts'[p] = posts[p]
                   /\ \A p \in DOMAIN posts' :
                        posts'[p].user_id = u =>
                            posts'[p].status \notin {"pending", "approved", "publishing"}]_vars

\* User 1's post was cancelled while the job was sending it, and user 2's
\* post, published earlier, is as it was.
CancelPostsContractWitness ==
    \E p, q \in DOMAIN posts :
        /\ posts[q].user_id = 1 /\ posts[q].status = "cancelled"
        /\ job = [pc |-> "sending", post_id |-> q]
        /\ posts[p].user_id = 2 /\ posts[p].status = "published"

\* C31: a post is publishing only while autopost_job is sending it; the step
\* that ends a run of the job leaves the post it reserved published or
\* approved; and every publishing post is eventually published or approved.
ReservedPostResolved ==
    /\ [](\A p \in DOMAIN posts :
            posts[p].status = "publishing" =>
                (job.pc = "sending" /\ job.post_id = p))
    /\ [][(job.pc = "sending" /\ job'.pc = "idle") =>
            posts'[job.post_id].status \in {"published", "approved"}]_vars
    /\ \A p \in 1..MaxQueue :
         (p \in DOMAIN posts /\ posts[p].status = "publishing")
            ~> (p \in DOMAIN posts /\ posts[p].status \in {"published", "approved"})

\* One post was published by a run of the job, and the other is approved
\* again after a run without a channel, which paused the autoposter.
ReservedPostResolvedWitness ==
    /\ job.pc = "idle" /\ settings.autopost_paused
    /\ \E p, q \in DOMAIN posts :
         /\ posts[p].status = "published" /\ posts[p].channel_message_id # 0
         /\ posts[q].status = "approved"

\* C40: with the autoposter not paused and autopost_job run again and again,
\* every approved post whose author is not banned is eventually reserved,
\* also when the publication of an earlier approved post fails every time.
ApprovedEventuallyReserved ==
    \A p \in 1..MaxQueue :
        (/\ p \in DOMAIN posts /\ posts[p].status = "approved"
         /\ ~users[posts[p].user_id].is_banned)
            ~> (job.pc = "sending" /\ job.post_id = p)

\* C33: no step changes a stored post's requires_pin, user_id or text, or the
\* id it is stored under: approve_post, reject_post, reserve_next_post,
\* mark_post_published, mark_post_failed and cancel_posts_for_user leave them.
PostIdentityFixed ==
    [][\A p \in DOMAIN posts :
          /\ p \in DOMAIN posts'
          /\ posts'[p].requires_pin = posts[p].requires_pin
          /\ posts'[p].user_id = posts[p].user_id
          /\ posts'[p].text = posts[p].text]_vars

\* A post submitted with a golden card has been published and still
\* requires the pin.
PostIdentityFixedWitness ==
    \E p \in DOMAIN posts :
        /\ posts[p].requires_pin /\ posts[p].status = "published"
        /\ posts[p].user_id = 2

\* C38: a service operation that raises leaves the stored users as they
\* were: a submit_post, award_referral, purchase_energy or grant_golden_card
\* that ends in an error stores no record for a user id that had none.
FailedCallLeavesStorage ==
    /\ \A u \in UserIds, t \in Texts :
           SubmitPostRaises(users, u, t) => SubmitPostUsers(users, u, t) = users
    /\ \A a, b \in UserIds :
           AwardReferralRaises(users, a, b) => AwardReferralUsers(users, a, b) = users
    /\ \A u \in UserIds, a \in Amounts :
           PurchaseEnergyRaises(users, u, a) => PurchaseEnergyUsers(users, u, a) = users
    /\ \A u \in UserIds, d \in Durations :
           GrantGoldenCardRaises(users, u, d) => GrantGoldenCardUsers(users, u, d) = users

\* register_user, with the record of the users whose call returned.
RegisterUserAudited(uid, subscribed, profile) ==
    /\ EnergyWithin(RegisterUserUsers(users, uid, subscribed, profile))
    /\ users' = RegisterUserUsers(users, uid, subscribed, profile)
    /\ registered' = IF RegisterUserRaises(users, uid, subscribed, profile)
                     THEN registered ELSE registered \cup {uid}
    /\ UNCHANGED <<posts, post_sequence, invoices, settings, ServiceVars, now,
                   BotVars, SupportVars, OutsideVars, job, inflight, serial,
                   filter_text, filter_result, charged, refunded, boot>>

\* Sign-up next to the operations that store a record for an id they are
\* handed: a referral, the admin's flags, a submission the filter refuses.
\* Energy changes only by the registration credit and the referral award.
NextSignup ==
    \/ \E u \in UserIds, sub \in BOOLEAN : RegisterUserAudited(u, sub, NoProfile)
    \/ \E a, b \in UserIds : AwardReferral(a, b)
    \/ \E u \in UserIds, b \in BOOLEAN : SetUserBanned(u, b)
    \/ \E u \in UserIds, b \in BOOLEAN : SetUserAdmin(u, b)
    \/ \E u \in UserIds : SubmitPost(u, TextBanned)

SpecSignup == Init /\ [][NextSignup]_vars

\* C39: every user whose register_user call returned holds the registration
\* energy once, next to what referrals earned: energy = registration_energy
\* + referral_energy for each user referred.
RegisteredCreditedOnce ==
    \A u \in registered :
        /\ UserExists(users, u)
        /\ users[u].energy = DEFAULT_REGISTRATION_ENERGY
               + DEFAULT_REFERRAL_ENERGY * Cardinality(users[u].referred_users)

\* submit_post, with the record of the energy it took for the new post.
SubmitPostAudited(uid, text) ==
    /\ SubmitPostRaises(users, uid, text) \/ post_sequence <= MaxPosts
    /\ users' = SubmitPostUsers(users, uid, text)
    /\ posts' = SubmitPostPosts(users, posts, post_sequence, uid, text)
    /\ post_sequence' = IF SubmitPostRaises(users, uid, text)
                        THEN post_sequence ELSE post_sequence + 1
    /\ charged' = IF SubmitPostRaises(users, uid, text) THEN charged
                  ELSE Append(charged, users[uid].energy
                                       - SubmitPostUsers(users, uid, text)[uid].energy)
    /\ refunded' = IF SubmitPostRaises(users, uid, text) THEN refunded
                   ELSE Append(refunded, <<>>)
    /\ UNCHANGED <<invoices, settings, ServiceVars, now, BotVars, SupportVars,
                   OutsideVars, job, inflight, serial, filter_text, filter_result,
                   registered, boot>>

\* reject_post, with the record of the energy it gave back to the author.
RejectPostAudited(pid) ==
    /\ EnergyWithin(RejectPostUsers(users, posts, pid))
    /\ posts' = RejectPostPosts(posts, pid)
    /\ users' = RejectPostUsers(users, posts, pid)
    /\ refunded' =
         IF ~PostExists(posts, pid) \/ posts[pid].status = "rejected" THEN refunded
         ELSE [refunded EXCEPT ![pid] =
                 Append(@, RejectPostUsers(users, posts, pid)[posts[pid].user_id].energy
                           - GetOrCreateUser(users, posts[pid].user_id,
                                             NoProfile)[posts[pid].user_id].energy)]
    /\ UNCHANGED <<post_sequence, invoices, settings, ServiceVars, now, BotVars,
                   SupportVars, OutsideVars, job, inflight, serial, filter_text,
                   filter_result, registered, charged, boot>>

\* One post between its author, the moderators, the autoposter's failure
\* path and a change of the post price.  The author's energy comes from a
\* referral or from registration.
NextRefund ==
    \/ \E u \in UserIds : RegisterUser(u, TRUE, NoProfile)
    \/ AwardReferral(1, 2)
    \/ \E u \in UserIds : SubmitPostAudited(u, TextHello)
    \/ \E p \in PostIds : RejectPostAudited(p)
    \/ \E p \in PostIds : ApprovePost(p)
    \/ \E p \in PostIds : MarkPostFailed(p)
    \/ \E c \in Costs : UpdatePostPrice(c)

SpecRefund == Init /\ [][NextRefund]_vars

\* C36: over any sequence of operations the author of a post is refunded
\* for that post at most once.
RefundedAtMostOnce ==
    \A p \in DOMAIN refunded : Len(refunded[p]) <= 1

\* C37: the energy reject_post gives back for a post is the energy
\* submit_post took for it, also after update_post_price changed the cost.
RefundEqualsCharge ==
    \A p \in DOMAIN refunded :
        Len(refunded[p]) >= 1 => refunded[p][1] = charged[p]

\* The ways the file at JsonStorage._path goes bad: text that is no JSON,
\* a file that cannot be opened, bytes that are no UTF-8, or a JSON document
\* in which one section has the wrong structure.
LoadSections == <<"users", "posts", "invoices", "tickets", "settings">>
DamageKinds == {"syntax", "unreadable", "encoding"} \cup { LoadSections[i] : i \in DOMAIN LoadSections }

IsDamaged(file) == "damaged" \in DOMAIN file

\* What _load has assigned when the section it is about to read is `at`:
\* the sections of the document before it, with the rest as
\* InMemoryStorage.__init__ left it.  The sequences follow the tickets and
\* the settings come last.
LoadUpTo(document, at) ==
    LET full == Load(document)
        clean == Load(NoFile)
        idx == CHOOSE i \in DOMAIN LoadSections : LoadSections[i] = at
    IN  [users |-> IF idx > 1 THEN full.users ELSE clean.users,
         posts |-> IF idx > 2 THEN full.posts ELSE clean.posts,
         invoices |-> IF idx > 3 THEN full.invoices ELSE clean.invoices,
         tickets |-> IF idx > 4 THEN full.tickets ELSE clean.tickets,
         post_sequence |-> IF idx > 4 THEN full.post_sequence ELSE clean.post_sequence,
         ticket_sequence |-> IF idx > 4 THEN full.ticket_sequence
                             ELSE clean.ticket_sequence,
         ticket_message_sequence |-> IF idx > 4 THEN full.ticket_message_sequence
                                     ELSE clean.ticket_message_sequence,
         settings |-> clean.settings]

\* _load without the reset in its last except clause (line 656).
JsonLoadNoReset(file) ==
    IF ~IsDamaged(file) THEN Load(file)
    ELSE IF file.damaged \in {"syntax", "unreadable", "encoding"} THEN Load(NoFile)
    ELSE LoadUpTo(file.document, file.damaged)

\* JsonStorage.__init__ raises: json.load fails with an error that is
\* neither a JSONDecodeError nor an OSError (a UnicodeDecodeError for bytes
\* that are no UTF-8), which the first try of _load does not catch.
JsonLoadRaises(file) == IsDamaged(file) /\ file.damaged = "encoding"

\* The state _load leaves: the document, or the clean state when the file is
\* missing, cannot be read or parsed, or a section fails to deserialize.
JsonLoad(file) ==
    IF ~IsDamaged(file) THEN Load(file) ELSE Load(NoFile)

\* The storage's state as _load's result is laid out.
Memory ==
    [users |-> users, posts |-> posts, post_sequence |-> post_sequence,
     invoices |-> invoices, tickets |-> tickets, settings |-> settings,
     ticket_sequence |-> ticket_sequence,
     ticket_message_sequence |-> ticket_message_sequence]

\* The file is damaged outside the program.
DamageFile(kind) ==
    /\ disk # NoFile /\ ~IsDamaged(disk)
    /\ disk' = [damaged |-> kind, document |-> disk]
    /\ UNCHANGED <<RunVars, StorageVars, ServiceVars, now, BotVars, SupportVars, handle>>

\* The process starts: JsonStorage(path) runs InMemoryStorage.__init__ and
\* _load.
OpenJsonStorage ==
    /\ \E loaded \in {JsonLoad(disk)} :
         /\ users' = loaded.users
         /\ posts' = loaded.posts
         /\ post_sequence' = loaded.post_sequence
         /\ invoices' = loaded.invoices
         /\ settings' = loaded.settings
         /\ tickets' = loaded.tickets
         /\ ticket_sequence' = loaded.ticket_sequence
         /\ ticket_message_sequence' = loaded.ticket_message_sequence
    /\ boot' = IF JsonLoadRaises(disk) THEN "raised" ELSE "opened"
    /\ UNCHANGED <<ServiceVars, now, BotVars, OutsideVars, job, inflight, serial,
                   filter_text, filter_result, AuditVars>>

\* A write of the file: the payload goes to a temporary file that then
\* replaces the file, so a write that fails leaves the file as it was.
WriteFileInPlace(old, payload, ok) ==
    IF ok THEN payload ELSE [damaged |-> "syntax", document |-> payload]

WriteFile(old, payload, ok) == IF ok THEN payload ELSE old

\* storage.save_user(User 1), add_post(post) or save_settings(settings) on
\* an open JsonStorage: the in-memory change, then _persist, whose write
\* succeeds or fails with an OSError that _persist logs.
JsonStorageWrite(kind, value, ok) ==
    /\ boot = "opened"
    /\ kind = "post" => post_sequence <= MaxStored
    /\ Assign(kind, IF kind = "post" THEN post_sequence ELSE 1, value)
    /\ post_sequence' = IF kind = "post" THEN post_sequence + 1 ELSE post_sequence
    /\ UNCHANGED <<RunVars, ServiceVars, now, BotVars, ticket_sequence,
                   ticket_message_sequence, handle>>
    /\ disk' = WriteFile(disk, Persist', ok)

WrittenKinds == {"user", "post", "settings"}

\* A storage that is written, whose file is damaged, and that is opened
\* again on the file.
NextBoot ==
    \/ \E kind \in WrittenKinds : \E value \in Constructed(kind) :
         JsonStorageWrite(kind, value, TRUE)
    \/ \E kind \in DamageKinds : DamageFile(kind)
    \/ OpenJsonStorage

SpecBoot == Init /\ [][NextBoot]_vars

\* C34: opening a JsonStorage on a corrupt, unreadable or malformed file
\* never fails, and leaves either the whole document or the clean initial
\* state.
OpenNeverFails ==
    [][OpenJsonStorage =>
         /\ boot' = "opened"
         /\ \/ Memory' = Load(NoFile)
            \/ ~IsDamaged(disk) /\ Memory' = Load(disk)]_vars

\* The all-or-nothing half alone.
OpenAllOrNothing ==
    [][OpenJsonStorage =>
         \/ Memory' = Load(NoFile)
         \/ ~IsDamaged(disk) /\ Memory' = Load(disk)]_vars

\* A storage whose writes succeed or fail, and the restart that reads the
\* file back.
NextWrite ==
    \/ \E kind \in WrittenKinds, ok \in BOOLEAN : \E value \in Constructed(kind) :
         JsonStorageWrite(kind, value, ok)
    \/ OpenJsonStorage

SpecWrite == Init /\ [][NextWrite]_vars

\* C35: a save whose write fails still returns with the storage's memory
\* updated and leaves the file as the last successful write left it, a
\* complete document; a save whose write succeeds leaves the file holding
\* the whole current state, with what was saved while writes failed.
FailedWriteContract ==
    [][\A kind \in WrittenKinds : \A value \in Constructed(kind) :
         /\ JsonStorageWrite(kind, value, FALSE) =>
              /\ disk' = disk
              /\ value = CASE kind = "user" -> users'[1]
                             [] kind = "post" -> posts'[post_sequence]
                             [] kind = "settings" -> settings'
         /\ JsonStorageWrite(kind, value, TRUE) =>
              /\ disk' = Persist'
              /\ value = CASE kind = "user" -> users'[1]
                             [] kind = "post" -> posts'[post_sequence]
                             [] kind = "settings" -> settings'
         /\ ~IsDamaged(disk')]_vars

FailedWriteContractWitness ==
    /\ boot = "opened"
    /\ disk # NoFile /\ ~IsDamaged(disk)
    /\ disk # Persist
    /\ Len(posts) > Len(disk.posts)
    /\ UserExists(users, 1) /\ 1 \in DOMAIN disk.users

====
